---- MODULE Spec2Model ----
(***************************************************************************)
(* Entry extraction engine of scripts/extract_entries_pymupdf.py:          *)
(* column segmentation, baseline/indent estimation, the per-column line    *)
(* classifier, post-processing of the emitted entries and cross-reference  *)
(* resolution (parse_pages).                                               *)
(*                                                                         *)
(* Text is a sequence of characters; every character is a one-element      *)
(* TLA+ string.  Characters outside ASCII carry a name:                    *)
(*   "SUP1" "SUP2" "SUP3"   superscript digits                             *)
(*   "RSQUO" "PRIME" "MODAP" "MODTC"   U+2019, U+2032, U+02BC, U+02BB      *)
(*   "ARROW"  U+2192,   "ARCOMMA"  U+060C                                  *)
(* Coordinates are integers; the estimated divider and the column bands    *)
(* derived from it are exact rationals <<numerator, denominator>>.         *)
(***************************************************************************)
EXTENDS Integers, Sequences, FiniteSets, TLC

\* ------------------------------------------------------------------------
\* Characters and character classes
\* ------------------------------------------------------------------------
LowerSeq ==
  <<"a","b","c","d","e","f","g","h","i","j","k","l","m",
    "n","o","p","q","r","s","t","u","v","w","x","y","z">>

UpperSeq ==
  <<"A","B","C","D","E","F","G","H","I","J","K","L","M",
    "N","O","P","Q","R","S","T","U","V","W","X","Y","Z">>

Lowers == {LowerSeq[i] : i \in 1..26}

Uppers == {UpperSeq[i] : i \in 1..26}

Letters == Lowers \cup Uppers

Digits == {"0","1","2","3","4","5","6","7","8","9"}

Superscripts == {"SUP1", "SUP2", "SUP3"}

\* keys of APOSTROPHE_MAP; every one maps to the ASCII apostrophe
APOSTROPHE_MAP == {"RSQUO", "PRIME", "MODAP", "MODTC"}

\* \s of the re module (subset that page text can carry)
Whitespace == {" ", "\t", "\n"}

\* \w of the re module on str patterns: alphanumerics (Unicode) and "_"
IsWordChar(c) ==
  c \in Letters \cup Digits \cup Superscripts \cup {"_", "MODAP", "MODTC"}

\* re.IGNORECASE folding of one character
ToLower(c) ==
  IF c \in Uppers THEN LowerSeq[CHOOSE i \in 1..26 : UpperSeq[i] = c] ELSE c

\* [A-Za-z’′ʼʻ'¹²³()\-] of HEADLINE_PATTERN, WORD_PATTERN
\* and WORD_INLINE_CANDIDATE
HeadwordClass ==
  Letters \cup APOSTROPHE_MAP \cup Superscripts \cup {"'", "(", ")", "-"}

\* [A-Za-z’′ʼʻ'¹²³\-] of CROSS_REF_TOKEN and SEE_ALSO_TOKEN
RefTokenClass ==
  Letters \cup APOSTROPHE_MAP \cup Superscripts \cup {"'", "-"}

\* the characters [)\.;:] that end a cue phrase
PhraseTerminators == {")", ".", ";", ":"}

\* the separators [;,،] of _split_refs
RefSeparators == {";", ",", "ARCOMMA"}

\* ------------------------------------------------------------------------
\* Sequence helpers (Python slicing and str methods)
\* ------------------------------------------------------------------------
SetMin(S) == CHOOSE x \in S : \A y \in S : x <= y

SetMax(S) == CHOOSE x \in S : \A y \in S : x >= y

\* s[i] with a sentinel outside the string
At(s, i) == IF i \in 1..Len(s) THEN s[i] ELSE "EOT"

\* s[n:]
Drop(s, n) == IF n >= Len(s) THEN <<>> ELSE SubSeq(s, n + 1, Len(s))

\* s[:n]
Take(s, n) == IF n <= 0 THEN <<>> ELSE SubSeq(s, 1, IF n > Len(s) THEN Len(s) ELSE n)

\* length of the longest run of characters of C that starts at index i
RunLen(s, i, C) ==
  SetMin({j \in i..(Len(s) + 1) : At(s, j) \notin C}) - i

\* the elements of s at the indexes of kept, in order
SubsetSeq(s, kept) ==
  [k \in 1..Cardinality(kept) |->
     s[CHOOSE i \in kept : Cardinality({j \in kept : j <= i}) = k]]

\* str.find(c) as a 1-based index, 0 when absent
Find(s, c) ==
  IF \E i \in 1..Len(s) : s[i] = c
  THEN SetMin({i \in 1..Len(s) : s[i] = c})
  ELSE 0

lstrip(s) == Drop(s, RunLen(s, 1, Whitespace))

rstrip(s) ==
  IF \A i \in 1..Len(s) : s[i] \in Whitespace
  THEN <<>>
  ELSE Take(s, SetMax({i \in 1..Len(s) : s[i] \notin Whitespace}))

strip(s) == lstrip(rstrip(s))

\* str.startswith(p)
StartsWith(s, p) == Len(s) >= Len(p) /\ Take(s, Len(p)) = p

\* case-insensitive str.startswith(p), p in lower case
StartsWithFold(s, p) ==
  Len(s) >= Len(p) /\ \A i \in 1..Len(p) : ToLower(s[i]) = p[i]

\* \b after the first e characters of s
Boundary(s, e) == IsWordChar(At(s, e)) # IsWordChar(At(s, e + 1))

\* first element of a sequence of match ends, 0 when there is none
FirstOr0(cands) == IF cands = <<>> THEN 0 ELSE Head(cands)

\* ------------------------------------------------------------------------
\* normalize_text
\* ------------------------------------------------------------------------
normalize_text_noStrip(s) ==
  LET n == Len(s)
      keep == {i \in 1..n :
                 \/ s[i] \notin Whitespace
                 \/ i = 1
                 \/ s[i - 1] \notin Whitespace}
      mapped == [i \in 1..n |->
                   IF s[i] \in APOSTROPHE_MAP THEN "'"
                   ELSE IF s[i] \in Whitespace THEN " "
                   ELSE s[i]]
  IN  SubsetSeq(mapped, keep)

\* the apostrophe variants replaced, every whitespace run collapsed to one
\* space, the ends stripped
normalize_text(s) ==
  LET n == Len(s)
      keep == {i \in 1..n :
                 \/ s[i] \notin Whitespace
                 \/ /\ i > 1
                    /\ s[i - 1] \notin Whitespace
                    /\ \E j \in (i + 1)..n : s[j] \notin Whitespace}
      mapped == [i \in 1..n |->
                   IF s[i] \in APOSTROPHE_MAP THEN "'"
                   ELSE IF s[i] \in Whitespace THEN " "
                   ELSE s[i]]
  IN  SubsetSeq(mapped, keep)

\* ------------------------------------------------------------------------
\* POS_PATTERN: length of the match at the start of t, 0 when none.
\* The candidates are listed in the order the backtracking matcher tries
\* them (alternatives left to right, greedy counts downwards); the match is
\* the first one that is followed by \b.
\* ------------------------------------------------------------------------
PosLetters == {"m", "f", "g", "l", "e", "u"}

\* (?:[a-z]{1,3}\.[a-z]{1,3}(?:\.[a-z]{1,3})?)
PosComposite(t) ==
  LET a == RunLen(t, 1, Letters)
      runB == RunLen(t, a + 2, Letters)
      forC(b, c) ==
        IF c <= RunLen(t, a + b + 3, Letters) THEN <<a + b + 2 + c>> ELSE <<>>
      forB(b) ==
        IF b > runB THEN <<>>
        ELSE (IF At(t, a + b + 2) = "."
              THEN forC(b, 3) \o forC(b, 2) \o forC(b, 1)
              ELSE <<>>) \o <<a + 1 + b>>
  IN  IF a \in 1..3 /\ At(t, a + 1) = "."
      THEN forB(3) \o forB(2) \o forB(1)
      ELSE <<>>

\* u\.j|e\.d|qr\.dd|m\.l/dh
PosSpecials(t) ==
  LET lit(p) == IF StartsWithFold(t, p) THEN <<Len(p)>> ELSE <<>>
  IN  lit(<<"u", ".", "j">>) \o lit(<<"e", ".", "d">>)
        \o lit(<<"q", "r", ".", "d", "d">>)
        \o lit(<<"m", ".", "l", "/", "d", "h">>)

\* (?:[mfgleu]\.[a-z]{1,3}(?:\d)?)
PosSuffixed(t) ==
  LET runB == RunLen(t, 3, Letters)
      forB(b) ==
        IF b > runB THEN <<>>
        ELSE (IF At(t, 3 + b) \in Digits THEN <<3 + b>> ELSE <<>>) \o <<2 + b>>
  IN  IF ToLower(At(t, 1)) \in PosLetters /\ At(t, 2) = "."
      THEN forB(3) \o forB(2) \o forB(1)
      ELSE <<>>

\* [mfgleu]\.
PosSingle(t) ==
  IF ToLower(At(t, 1)) \in PosLetters /\ At(t, 2) = "." THEN <<2>> ELSE <<>>

POS_PATTERN(t) ==
  LET cands == PosComposite(t) \o PosSpecials(t) \o PosSuffixed(t) \o PosSingle(t)
  IN  FirstOr0(SelectSeq(cands, LAMBDA e : Boundary(t, e)))

\* ------------------------------------------------------------------------
\* HEADLINE_PATTERN on a normalized text: the word group is the longest
\* prefix of HeadwordClass characters, followed by whitespace and a
\* non-empty rest.
\* ------------------------------------------------------------------------
HEADLINE_PATTERN(text) ==
  LET k == RunLen(text, 1, HeadwordClass)
      w == RunLen(text, k + 1, Whitespace)
  IN  IF k >= 1 /\ w >= 1 /\ Len(text) > k + w
      THEN [ok |-> TRUE, word |-> Take(text, k), rest |-> Drop(text, k + w)]
      ELSE [ok |-> FALSE, word |-> <<>>, rest |-> <<>>]

\* WORD_PATTERN: ^[...]+\d?\b
WORD_PATTERN(t) ==
  \E k \in 1..RunLen(t, 1, HeadwordClass) :
     \/ Boundary(t, k)
     \/ At(t, k + 1) \in Digits /\ Boundary(t, k + 1)

\* one digit only before the period
StartsWithNumberDot_oneDigit(t) ==
  At(t, 1) \in Digits /\ At(t, 2) = "."

\* re.match(r"^\d+\.", t)
StartsWithNumberDot(t) ==
  LET d == RunLen(t, 1, Digits) IN d >= 1 /\ At(t, d + 1) = "."

\* while tmp.startswith('(') and ')' in tmp: tmp = tmp[close+1:].lstrip()
RECURSIVE StripAliases(_)
StripAliases(tmp) ==
  IF At(tmp, 1) = "(" /\ Find(tmp, ")") # 0
  THEN StripAliases(lstrip(Drop(tmp, Find(tmp, ")"))))
  ELSE tmp

\* rest.startswith('(') ... rest = rest[close+1:].lstrip()   (one inflection note)
StripInflection(rest) ==
  IF At(rest, 1) = "(" /\ Find(rest, ")") # 0
  THEN lstrip(Drop(rest, Find(rest, ")")))
  ELSE rest

\* ------------------------------------------------------------------------
\* find_inline_headword_break
\* ------------------------------------------------------------------------
\* WORD_INLINE_CANDIDATE with the quantifier {0,40}: group 1 may be empty
WORD_INLINE_CANDIDATE_emptyGroup(text, s) ==
  LET r == RunLen(text, s, HeadwordClass)
      w == RunLen(text, s + r, Whitespace)
  IN  [ok |-> Boundary(text, s - 1) /\ r <= 40 /\ w >= 1,
       glen |-> r,
       end |-> s + r + w - 1]

\* WORD_INLINE_CANDIDATE tried at index s: \b, 1..40 class characters
\* (greedy, so the whole run), then \s+.  glen is the length of group 1,
\* end the index of the last character of the match.
WORD_INLINE_CANDIDATE(text, s) ==
  LET r == RunLen(text, s, HeadwordClass)
      w == RunLen(text, s + r, Whitespace)
  IN  [ok |-> Boundary(text, s - 1) /\ r >= 1 /\ r <= 40 /\ w >= 1,
       glen |-> r,
       end |-> s + r + w - 1]

NoBreak == [idx |-> -1, hw |-> <<>>, rest |-> <<>>]

\* the finditer loop, resumed at index pos; idx is the 0-based m.start()
RECURSIVE InlineScan(_, _)
InlineScan(text, pos) ==
  LET starts == {s \in pos..Len(text) : WORD_INLINE_CANDIDATE(text, s).ok}
  IN  IF starts = {} THEN NoBreak
      ELSE
        LET s == SetMin(starts)
            m == WORD_INLINE_CANDIDATE(text, s)
            hw == normalize_text(SubSeq(text, s, s + m.glen - 1))
            rest == lstrip(Drop(text, m.end))
            tmp == StripInflection(rest)
            pm == POS_PATTERN(tmp)
        IN  IF Len(hw) = 1 /\ hw # <<"a">> THEN InlineScan(text, m.end + 1)
            ELSE IF pm > 0
                 THEN [idx |-> s - 1, hw |-> hw, rest |-> lstrip(Drop(tmp, pm))]
                 ELSE InlineScan(text, m.end + 1)

find_inline_headword_break(text) ==
  IF text = <<>> THEN NoBreak ELSE InlineScan(text, 1)

\* ------------------------------------------------------------------------
\* Cue phrases of the post-processing step
\* ------------------------------------------------------------------------
\* length of the longest run of characters outside C that starts at index i
RunLenNot(s, i, C) ==
  SetMin({j \in i..(Len(s) + 1) : j = Len(s) + 1 \/ s[j] \in C}) - i

NoMatch == [ok |-> FALSE, group |-> <<>>, end |-> 0]

\* \s+([^)\.;:]+) from index q on: the whitespace run, then the group; when
\* nothing but a terminator follows the run, the run gives its last
\* character back to the group
PhraseTail(t, q) ==
  LET w == RunLen(t, q, Whitespace)
      g == RunLenNot(t, q + w, PhraseTerminators)
  IN  IF w >= 1 /\ g >= 1
      THEN [ok |-> TRUE, group |-> SubSeq(t, q + w, q + w + g - 1),
            end |-> q + w + g - 1]
      ELSE IF w >= 2
      THEN [ok |-> TRUE, group |-> <<t[q + w - 1]>>, end |-> q + w - 1]
      ELSE NoMatch

\* \s+([A-Za-z...\-]+) from index q on
TokenTail(t, q) ==
  LET w == RunLen(t, q, Whitespace)
      g == RunLen(t, q + w, RefTokenClass)
  IN  IF w >= 1 /\ g >= 1
      THEN [ok |-> TRUE, group |-> SubSeq(t, q + w, q + w + g - 1),
            end |-> q + w + g - 1]
      ELSE NoMatch

Eeg == <<"e", "e", "g">>

Ld == <<"l", "d">>

\* CROSS_REF_PHRASE tried at index s
CROSS_REF_PHRASE(t, s) ==
  LET p == IF At(t, s) = "(" THEN s + 1 ELSE s
      q == IF StartsWithFold(Drop(t, p - 1), Eeg) THEN p + 3
           ELSE IF At(t, p) = "ARROW" THEN p + 1
           ELSE 0
      tail == PhraseTail(t, q)
  IN  IF q # 0 /\ Boundary(t, p - 1) /\ tail.ok
      THEN [ok |-> TRUE, group |-> tail.group,
            end |-> tail.end + RunLen(t, tail.end + 1, PhraseTerminators)]
      ELSE NoMatch

\* SEE_ALSO_PHRASE tried at index s
SEE_ALSO_PHRASE(t, s) ==
  LET u == Drop(t, s - 1)
      w1 == RunLen(t, s + 3, Whitespace)
      w2 == RunLen(t, s + 3 + w1 + 5, Whitespace)
      q == IF StartsWithFold(u, Ld) THEN s + 2
           ELSE IF /\ StartsWithFold(u, Eeg)
                   /\ w1 >= 1
                   /\ StartsWithFold(Drop(t, s + 2 + w1), <<"s", "i", "d", "o", "o">>)
                   /\ w2 >= 1
                   /\ StartsWithFold(Drop(t, s + 2 + w1 + 5 + w2), <<"k", "a", "l", "e">>)
                THEN s + 3 + w1 + 5 + w2 + 4
           ELSE 0
      tail == PhraseTail(t, q)
  IN  IF q # 0 /\ Boundary(t, s - 1) /\ tail.ok THEN tail ELSE NoMatch

\* CROSS_REF_TOKEN tried at index s
CROSS_REF_TOKEN(t, s) ==
  LET tail == TokenTail(t, s + 3)
  IN  IF StartsWithFold(Drop(t, s - 1), Eeg) /\ Boundary(t, s - 1) /\ tail.ok
      THEN tail ELSE NoMatch

\* SEE_ALSO_TOKEN tried at index s
SEE_ALSO_TOKEN(t, s) ==
  LET tail == TokenTail(t, s + 2)
  IN  IF StartsWithFold(Drop(t, s - 1), Ld) /\ Boundary(t, s - 1) /\ tail.ok
      THEN tail ELSE NoMatch

\* finditer / findall: group 1 of the successive leftmost matches from pos on
RECURSIVE FindAll(_, _, _)
FindAll(M(_, _), t, pos) ==
  LET starts == {s \in pos..Len(t) : M(t, s).ok}
  IN  IF starts = {} THEN <<>>
      ELSE LET m == M(t, SetMin(starts))
           IN  <<m.group>> \o FindAll(M, t, m.end + 1)

\* JoinHyphens that replaces the leftmost match only (re.sub with count=1)
JoinHyphens_first(t) ==
  LET hit(i) == LET w == RunLen(t, i, Whitespace)
                IN  /\ w >= 1
                    /\ At(t, i + w) = "-"
                    /\ RunLen(t, i + w + 1, Whitespace) >= 1
      starts == {i \in 1..Len(t) : hit(i)}
  IN  IF starts = {} THEN t
      ELSE LET i == SetMin(starts)
               w == RunLen(t, i, Whitespace)
               e == i + w + RunLen(t, i + w + 1, Whitespace)
           IN  Take(t, i - 1) \o <<"-">> \o Drop(t, e)

\* re.sub(r"\s+-\s+", "-", t)
RECURSIVE JoinHyphens(_)
JoinHyphens(t) ==
  LET hit(i) == LET w == RunLen(t, i, Whitespace)
                IN  /\ w >= 1
                    /\ At(t, i + w) = "-"
                    /\ RunLen(t, i + w + 1, Whitespace) >= 1
      starts == {i \in 1..Len(t) : hit(i)}
  IN  IF starts = {} THEN t
      ELSE LET i == SetMin(starts)
               w == RunLen(t, i, Whitespace)
               e == i + w + RunLen(t, i + w + 1, Whitespace)
           IN  Take(t, i - 1) \o <<"-">> \o JoinHyphens(Drop(t, e))

\* re.split(r"[;,،]", chunk)
RECURSIVE SplitOnSeparators(_)
SplitOnSeparators(chunk) ==
  LET n == RunLenNot(chunk, 1, RefSeparators)
  IN  IF n = Len(chunk) THEN <<chunk>>
      ELSE <<Take(chunk, n)>> \o SplitOnSeparators(Drop(chunk, n + 1))

\* re.sub(r"^(eeg\s+|ld\s+)", "", p)   (case-sensitive)
DropLeadingCue(p) ==
  LET cut(c) == Len(c) + RunLen(p, Len(c) + 1, Whitespace)
  IN  IF StartsWith(p, Eeg) /\ RunLen(p, 4, Whitespace) >= 1 THEN Drop(p, cut(Eeg))
      ELSE IF StartsWith(p, Ld) /\ RunLen(p, 3, Whitespace) >= 1 THEN Drop(p, cut(Ld))
      ELSE p

\* _split_refs that keeps the captured chunk in one piece
split_refs_whole(chunk) ==
  LET norm == normalize_text(strip(chunk))
  IN  IF norm = <<>> THEN <<>> ELSE <<DropLeadingCue(norm)>>

\* _split_refs
split_refs(chunk) ==
  LET pieces == SplitOnSeparators(chunk)
      norm == [i \in 1..Len(pieces) |-> normalize_text(strip(pieces[i]))]
      kept == SelectSeq(norm, LAMBDA p : p # <<>>)
  IN  [i \in 1..Len(kept) |-> DropLeadingCue(kept[i])]

\* ------------------------------------------------------------------------
\* Numbers: exact rationals <<n, d>> with d > 0, sorting, medians
\* ------------------------------------------------------------------------
Rat(n) == <<n, 1>>

RLe(a, b) == a[1] * b[2] <= b[1] * a[2]

RLt(a, b) == a[1] * b[2] < b[1] * a[2]

RSub(a, b) == <<a[1] * b[2] - b[1] * a[2], a[2] * b[2]>>

RAdd(a, b) == <<a[1] * b[2] + b[1] * a[2], a[2] * b[2]>>

RAbs(a) == <<IF a[1] < 0 THEN -a[1] ELSE a[1], a[2]>>

\* min(a, b) and max(a, b) of Python: the first argument wins a tie
RMin(a, b) == IF RLt(b, a) THEN b ELSE a

RMax(a, b) == IF RLt(a, b) THEN b ELSE a

Abs(n) == IF n < 0 THEN -n ELSE n

RECURSIVE Sum(_)
Sum(s) == IF s = <<>> THEN 0 ELSE Head(s) + Sum(Tail(s))

\* sorted(s, key=...) : stable
SortBy(s, Less(_, _)) ==
  LET n == Len(s)
      rank(i) == 1 + Cardinality({j \in 1..n :
                       \/ Less(s[j], s[i])
                       \/ ~Less(s[i], s[j]) /\ j < i})
  IN  [k \in 1..n |-> s[CHOOSE i \in 1..n : rank(i) = k]]

IntLess(a, b) == a < b

\* srt[k: len(srt)-k] if len(srt) - 2*k > 0 else srt, with k = int(len * 0.15)
Trimmed(srt) ==
  LET k == (Len(srt) * 15) \div 100
  IN  IF Len(srt) - 2 * k > 0 THEN SubSeq(srt, k + 1, Len(srt) - k) ELSE srt

\* Middle that takes the lower of the two middle elements
Middle_lower(srt) == srt[((Len(srt) - 1) \div 2) + 1]

\* srt[len(srt)//2]
Middle(srt) == srt[(Len(srt) \div 2) + 1]

\* optional values: None is the empty sequence
None == <<>>

Some(v) == <<v>>

\* ------------------------------------------------------------------------
\* Page input and line collection
\* ------------------------------------------------------------------------
\* "".join(s.get('text', '') for s in spans)
RECURSIVE JoinSpans(_)
JoinSpans(spans) ==
  IF spans = <<>> THEN <<>> ELSE Head(spans).text \o JoinSpans(Tail(spans))

\* header/footer bands: page_h * 0.06 each
InMargin(page, l) ==
  \/ 100 * l.bbox[2] < 6 * page.height
  \/ 100 * (page.height - l.bbox[4]) < 6 * page.height

\* lines_data: the lines that have spans and lie outside the margin bands
LinesData(page) ==
  SelectSeq(page.lines, LAMBDA l : l.spans # <<>> /\ ~InMargin(page, l))

\* words: one record per non-blank span of a retained line
RECURSIVE Words(_)
Words(lines) ==
  IF lines = <<>> THEN <<>>
  ELSE LET sp == SelectSeq(Head(lines).spans, LAMBDA s : strip(s.text) # <<>>)
       IN  [i \in 1..Len(sp) |-> [x0 |-> sp[i].bbox[1], x1 |-> sp[i].bbox[3]]]
             \o Words(Tail(lines))

\* ------------------------------------------------------------------------
\* detect_divider_x
\* ------------------------------------------------------------------------
\* a long vertical segment near the middle of the page
IsDividerSegment(page, seg) ==
  /\ Abs(seg[1] - seg[3]) < 1
  /\ 10 * Abs(seg[4] - seg[2]) > 6 * page.height
  /\ 3 * page.width < 10 * seg[1]
  /\ 10 * seg[1] < 7 * page.width

\* page.drawings is None when get_drawings() is unavailable or raises
DrawnDivider(page) ==
  IF page.drawings = None THEN None
  ELSE LET segs == page.drawings[1]
           hits == {i \in 1..Len(segs) : IsDividerSegment(page, segs[i])}
       IN  IF hits = {} THEN None ELSE Some(Rat(segs[SetMin(hits)][1]))

\* two-cluster midpoint of the line left edges
EstimatedDivider(lines_data) ==
  LET xs == SortBy([i \in 1..Len(lines_data) |-> lines_data[i].bbox[1]], IntLess)
      mid == Middle(xs)
      left == SelectSeq(xs, LAMBDA v : v <= mid)
      right == SelectSeq(xs, LAMBDA v : v > mid)
      nl == IF Len(left) > 1 THEN Len(left) ELSE 1
      nr == IF Len(right) > 1 THEN Len(right) ELSE 1
  IN  <<Sum(left) * nr + Sum(right) * nl, 2 * nl * nr>>

detect_divider_x_noFallback(page, lines_data) == DrawnDivider(page)

detect_divider_x(page, lines_data) ==
  IF DrawnDivider(page) # None THEN DrawnDivider(page)
  ELSE IF lines_data = <<>> THEN None
  ELSE Some(EstimatedDivider(lines_data))

\* ------------------------------------------------------------------------
\* detect_columns
\* ------------------------------------------------------------------------
min_gap == 20

\* the split loop over the sorted (x0, x1) pairs; current is the open band
RECURSIVE SplitBands(_, _)
SplitBands(xs, current) ==
  IF xs = <<>> THEN <<current>>
  ELSE LET x == Head(xs)
       IN  IF x[1] - current[2] > min_gap
           THEN <<current>> \o SplitBands(Tail(xs), x)
           ELSE SplitBands(Tail(xs),
                  <<IF x[1] < current[1] THEN x[1] ELSE current[1],
                    IF x[2] > current[2] THEN x[2] ELSE current[2]>>)

\* the greedy merge of adjacent bands; merged is never empty
RECURSIVE MergeBands(_, _)
MergeBands(bands, merged) ==
  IF bands = <<>> THEN merged
  ELSE LET b == Head(bands)
           last == merged[Len(merged)]
       IN  IF b[1] - last[2] < min_gap * 2
           THEN MergeBands(Tail(bands),
                  [merged EXCEPT ![Len(merged)] =
                     <<IF b[1] < last[1] THEN b[1] ELSE last[1],
                       IF b[2] > last[2] THEN b[2] ELSE last[2]>>])
           ELSE MergeBands(Tail(bands), Append(merged, b))

detect_columns(words) ==
  IF words = <<>> THEN <<>>
  ELSE LET xs == SortBy([i \in 1..Len(words) |-> <<words[i].x0, words[i].x1>>],
                        LAMBDA a, b : a[1] < b[1])
           bands == SplitBands(Tail(xs), Head(xs))
       IN  IF Len(bands) > 3
           THEN MergeBands(Tail(bands), <<Head(bands)>>)
           ELSE bands

\* ------------------------------------------------------------------------
\* Column bands of a page and the assignment of lines to them
\* ------------------------------------------------------------------------
epsilon == 1

\* DividerBands with the sign of epsilon inverted
DividerBands_overlap(page, divider_x) ==
  <<<<Rat(0), RMax(Rat(0), RAdd(divider_x, Rat(epsilon)))>>,
    <<RMin(Rat(page.width), RSub(divider_x, Rat(epsilon))), Rat(page.width)>>>>

\* the two bands on either side of a divider
DividerBands(page, divider_x) ==
  <<<<Rat(0), RMax(Rat(0), RSub(divider_x, Rat(epsilon)))>>,
    <<RMin(Rat(page.width), RAdd(divider_x, Rat(epsilon))), Rat(page.width)>>>>

ColBands(page, divider_x, words) ==
  LET raw == IF divider_x # None THEN DividerBands(page, divider_x[1])
             ELSE LET cl == detect_columns(words)
                  IN  IF cl = <<>> THEN <<<<Rat(0), Rat(page.width)>>>>
                      ELSE [i \in 1..Len(cl) |-> <<Rat(cl[i][1]), Rat(cl[i][2])>>]
  IN  SortBy(raw, LAMBDA a, b : RLt(a[1], b[1]))

\* ColumnOf with the left edge of the line in the place of its centre
ColumnOf_leftEdge(ld, col_bands) ==
  LET cx == <<ld.bbox[1], 1>>
      inside == {i \in 1..Len(col_bands) :
                   RLe(col_bands[i][1], cx) /\ RLe(cx, col_bands[i][2])}
      dist(i) == RMin(RAbs(RSub(cx, col_bands[i][1])),
                      RAbs(RSub(cx, col_bands[i][2])))
  IN  IF inside # {} THEN SetMin(inside)
      ELSE SetMin({i \in 1..Len(col_bands) :
                     \A j \in 1..Len(col_bands) : RLe(dist(i), dist(j))})

\* index (from 1) of the band a line goes to: the first band that contains
\* the centre, else the first band at the least distance
ColumnOf(ld, col_bands) ==
  LET cx == <<ld.bbox[1] + ld.bbox[3], 2>>
      inside == {i \in 1..Len(col_bands) :
                   RLe(col_bands[i][1], cx) /\ RLe(cx, col_bands[i][2])}
      dist(i) == RMin(RAbs(RSub(cx, col_bands[i][1])),
                      RAbs(RSub(cx, col_bands[i][2])))
  IN  IF inside # {} THEN SetMin(inside)
      ELSE SetMin({i \in 1..Len(col_bands) :
                     \A j \in 1..Len(col_bands) : RLe(dist(i), dist(j))})

\* Columns without the sort of each column
Columns_unsorted(lines_data, col_bands) ==
  [i \in 1..Len(col_bands) |->
     SelectSeq(lines_data, LAMBDA ld : ColumnOf(ld, col_bands) = i)]

\* columns: per band its lines, sorted top to bottom (stable)
Columns(lines_data, col_bands) ==
  [i \in 1..Len(col_bands) |->
     SortBy(SelectSeq(lines_data, LAMBDA ld : ColumnOf(ld, col_bands) = i),
            LAMBDA a, b : a.bbox[2] < b.bbox[2])]

\* ------------------------------------------------------------------------
\* Baseline and indent estimation of one column
\* ------------------------------------------------------------------------
LineText(ld) == normalize_text(JoinSpans(ld.spans))

\* a headline-shaped line: word token, then a POS token
IsHeadlineShaped(ld) ==
  LET hl == HEADLINE_PATTERN(LineText(ld))
  IN  hl.ok /\ POS_PATTERN(normalize_text(hl.rest)) > 0

\* sizes of the non-blank spans of a line
SpanSizes(ld) ==
  LET sp == SelectSeq(ld.spans, LAMBDA s : strip(s.text) # <<>>)
  IN  [i \in 1..Len(sp) |-> sp[i].size]

MaxOr0(sizes) ==
  IF sizes = <<>> THEN 0 ELSE SetMax({sizes[i] : i \in 1..Len(sizes)})

RECURSIVE Flatten(_)
Flatten(ss) == IF ss = <<>> THEN <<>> ELSE Head(ss) \o Flatten(Tail(ss))

\* the fallback over word-like line starts and size cues
WordStartBaseline(col) ==
  LET cands == SelectSeq(col, LAMBDA ld :
                 WORD_PATTERN(normalize_text(ld.spans[1].text)))
      size_pool == Flatten([i \in 1..Len(cands) |-> SpanSizes(cands[i])])
      med == IF size_pool = <<>> THEN 0 ELSE Middle(SortBy(size_pool, IntLess))
      big == SelectSeq(cands, LAMBDA ld : MaxOr0(SpanSizes(ld)) >= med)
      use == IF big = <<>> THEN cands ELSE big
      xs == Trimmed(SortBy([i \in 1..Len(use) |-> use[i].bbox[1]], IntLess))
  IN  IF cands = <<>> THEN None ELSE Some(Middle(xs))

\* round(x / 2.0) * 2.0 for an integer x (round half to even)
RoundToTwo(x) ==
  IF x % 2 = 0 THEN x
  ELSE IF ((x - 1) \div 2) % 2 = 0 THEN x - 1 ELSE x + 1

\* max(d.items(), key=count)[0] over the keys in insertion order
FirstMode(keys) ==
  LET count(k) == Cardinality({i \in 1..Len(keys) : keys[i] = k})
      best == SetMax({count(keys[i]) : i \in 1..Len(keys)})
  IN  keys[SetMin({i \in 1..Len(keys) : count(keys[i]) = best})]

HistogramKeys(col) == [i \in 1..Len(col) |-> RoundToTwo(col[i].bbox[1])]

\* head_left of a column
HeadLeft(col) ==
  LET headword_lefts == SelectSeq(col, IsHeadlineShaped)
      srt == Trimmed(SortBy([i \in 1..Len(headword_lefts) |->
                               headword_lefts[i].bbox[1]], IntLess))
  IN  IF headword_lefts # <<>> THEN Some(Middle(srt))
      ELSE IF WordStartBaseline(col) # None THEN WordStartBaseline(col)
      ELSE IF col # <<>> THEN Some(FirstMode(HistogramKeys(col)))
      ELSE None

\* indent_delta of a column
IndentDelta(col) ==
  LET fromLines == SelectSeq(col, IsHeadlineShaped) # <<>>
                     \/ WordStartBaseline(col) # None
      head_left == HeadLeft(col)[1]
      offs == [i \in 1..Len(col) |-> col[i].bbox[1] - head_left]
      diffs == Trimmed(SortBy(SelectSeq(offs, LAMBDA d : 8 < d /\ d < 40), IntLess))
      keys == HistogramKeys(col)
      indent_candidates ==
        SelectSeq(keys, LAMBDA x : 14 <= x - head_left /\ x - head_left <= 40)
  IN  IF HeadLeft(col) = None THEN 20
      ELSE IF fromLines
      THEN (IF diffs # <<>> THEN Middle(diffs) ELSE 20)
      ELSE (IF indent_candidates # <<>>
            THEN FirstMode(indent_candidates) - head_left
            ELSE 22)

\* ------------------------------------------------------------------------
\* Entries
\* ------------------------------------------------------------------------
\* Entry(word=hw, page=page_num, column=col_idx, bbox=tuple(ld['bbox']))
Entry(hw, page_num, column, bbox) ==
  [word |-> hw, pos |-> <<>>, senses |-> <<>>,
   seeAlso |-> <<>>, crossRefs |-> <<>>,
   crossRefTargets |-> <<>>, seeAlsoTargets |-> <<>>,
   page |-> page_num, column |-> column, bbox |-> bbox]

\* append to the last sense, or create the first one
AppendText(e, txt) ==
  IF e.senses # <<>>
  THEN [e EXCEPT !.senses[Len(e.senses)] =
          normalize_text(e.senses[Len(e.senses)] \o <<" ">> \o txt)]
  ELSE [e EXCEPT !.senses = <<txt>>]

WithFirstSense(e, rest) ==
  IF rest # <<>> THEN [e EXCEPT !.senses = Append(e.senses, rest)] ELSE e

\* ------------------------------------------------------------------------
\* The line classifier: one iteration of the loop over a column's lines
\* ------------------------------------------------------------------------
head_tol == 8

cont_tol == 2

promote_tol == 10

inline_tol == 12

\* pos_in_line: the rest after the word token, alias parentheses consumed,
\* starts with a POS token
PosInLine(text) ==
  LET hl == HEADLINE_PATTERN(text)
      rest_after_word == normalize_text(hl.rest)
  IN  /\ hl.ok
      /\ rest_after_word # <<>>
      /\ POS_PATTERN(StripAliases(rest_after_word)) > 0

\* is_head_aligned with the tolerance of the promotion
IsHeadAligned_loose(x0, head_left) ==
  head_left = None \/ Abs(x0 - head_left[1]) <= promote_tol

\* is_head_aligned
IsHeadAligned(x0, head_left) ==
  head_left = None \/ Abs(x0 - head_left[1]) <= head_tol

\* the line aligns to the indent of the column
IsIndented(x0, head_left, indent_delta) ==
  x0 >= head_left[1] + indent_delta - cont_tol

InlineBreakAllowed_always(x0, head_left) == TRUE

\* the guard of the inline split: no baseline estimate, or the line starts
\* near the baseline
InlineBreakAllowed(x0, head_left) ==
  head_left = None \/ Abs(x0 - head_left[1]) <= inline_tol

\* HeadwordOf without the headline override: always the first span's text
HeadwordOf_firstSpan(hl, first_text) == first_text

\* hw: the word group of the headline match, else the first span's text
HeadwordOf(hl, first_text) ==
  IF hl.ok THEN normalize_text(hl.word) ELSE first_text

\* the Entry a new-headword line starts
HeadwordEntry(ld, text, page_num, column) ==
  LET hl == HEADLINE_PATTERN(text)
      first == ld.spans[1]
      rest0 == IF hl.ok THEN normalize_text(hl.rest)
               ELSE normalize_text(lstrip(Drop(text, Len(strip(first.text)))))
      tmp == StripAliases(rest0)
      m == POS_PATTERN(tmp)
      rest == IF m > 0 THEN StripInflection(strip(Drop(tmp, m))) ELSE rest0
      e == Entry(HeadwordOf(hl, normalize_text(first.text)), page_num, column, ld.bbox)
  IN  WithFirstSense([e EXCEPT !.pos = IF m > 0 THEN Take(tmp, m) ELSE <<>>], rest)

\* promote_to_head with the strict tolerance of rule 2
PromoteToHead_strict(text, x0, head_left) ==
  /\ head_left # None
  /\ Abs(x0 - head_left[1]) <= head_tol
  /\ LET hl2 == HEADLINE_PATTERN(text)
     IN  hl2.ok /\ POS_PATTERN(StripAliases(normalize_text(hl2.rest))) > 0

\* promote_to_head
PromoteToHead(text, x0, head_left) ==
  /\ head_left # None
  /\ Abs(x0 - head_left[1]) <= promote_tol
  /\ LET hl2 == HEADLINE_PATTERN(text)
     IN  hl2.ok /\ POS_PATTERN(StripAliases(normalize_text(hl2.rest))) > 0

\* the Entry a promoted line starts
PromotedEntry(ld, text, page_num, column) ==
  LET hl2 == HEADLINE_PATTERN(text)
      rest2 == StripAliases(normalize_text(hl2.rest))
      m2 == POS_PATTERN(rest2)
      rest == StripInflection(lstrip(Drop(rest2, m2)))
  IN  WithFirstSense(Entry(normalize_text(hl2.word), page_num, column, ld.bbox), rest)

\* the Entry an inline headword break starts
InlineEntry(ld, brk, page_num, column) ==
  LET e == Entry(brk.hw, page_num, column, ld.bbox)
  IN  IF brk.rest # <<>>
      THEN [e EXCEPT !.senses = <<StripInflection(brk.rest)>>]
      ELSE e

\* the body of the loop for line ld: the new current Entry and output list
Classify(ld, cur0, out, head_left, indent_delta, carry, page_num, column) ==
  LET x0 == ld.bbox[1]
      text == LineText(ld)
      pos_in_line == PosInLine(text)
      is_head_aligned == IsHeadAligned(x0, head_left)
      adopt == /\ cur0 = None
               /\ carry # None
               /\ head_left # None
               /\ IsIndented(x0, head_left, indent_delta)
               /\ ~(is_head_aligned /\ pos_in_line)
      cur == IF adopt THEN carry ELSE cur0
      brk == find_inline_headword_break(text)
  IN  IF text = <<>> THEN [current |-> cur0, entries |-> out]
      ELSE IF pos_in_line /\ is_head_aligned
      THEN [current |-> Some(HeadwordEntry(ld, text, page_num, column)),
            entries |-> IF cur # None THEN Append(out, cur[1]) ELSE out]
      ELSE IF cur = None THEN [current |-> cur, entries |-> out]
      ELSE IF PromoteToHead(text, x0, head_left)
      THEN [current |-> Some(PromotedEntry(ld, text, page_num, column)),
            entries |-> Append(out, cur[1])]
      ELSE IF StartsWithNumberDot(text)
      THEN [current |-> Some([cur[1] EXCEPT !.senses = Append(@, text)]),
            entries |-> out]
      ELSE IF brk.idx # -1 /\ InlineBreakAllowed(x0, head_left)
      THEN LET left_part == rstrip(Take(text, brk.idx))
               closed == IF left_part # <<>> THEN AppendText(cur[1], left_part)
                         ELSE cur[1]
           IN  [current |-> Some(InlineEntry(ld, brk, page_num, column)),
                entries |-> Append(out, closed)]
      ELSE [current |-> Some(AppendText(cur[1], text)), entries |-> out]

\* ------------------------------------------------------------------------
\* Post-processing of the emitted entries of a page
\* ------------------------------------------------------------------------
\* AddUnique without the membership test
AddUnique_all(list, items) ==
  list \o SelectSeq(items, LAMBDA it : it # <<>>)

\* "if cr and cr not in e.crossRefs: e.crossRefs.append(cr)" for each item
RECURSIVE AddUnique(_, _)
AddUnique(list, items) ==
  IF items = <<>> THEN list
  ELSE LET it == Head(items)
       IN  IF it # <<>> /\ \A i \in 1..Len(list) : list[i] # it
           THEN AddUnique(Append(list, it), Tail(items))
           ELSE AddUnique(list, Tail(items))

\* the tokens of every phrase match, in order
PhraseRefs(M(_, _), t) ==
  LET groups == FindAll(M, t, 1)
  IN  Flatten([i \in 1..Len(groups) |-> split_refs(groups[i])])

\* the single-token fallback captures, normalized
TokenRefs(M(_, _), t) ==
  LET groups == FindAll(M, t, 1)
  IN  [i \in 1..Len(groups) |-> normalize_text(groups[i])]

\* the cleaned text of one sense
CleanSense(txt) == JoinHyphens(strip(txt))

\* the loop over the senses of e, from sense i on
RECURSIVE ScanSenses(_, _)
ScanSenses(e, i) ==
  IF i > Len(e.senses) THEN e
  ELSE LET t == CleanSense(e.senses[i])
           cr == AddUnique(AddUnique(e.crossRefs, PhraseRefs(CROSS_REF_PHRASE, t)),
                           TokenRefs(CROSS_REF_TOKEN, t))
           sa == AddUnique(AddUnique(e.seeAlso, PhraseRefs(SEE_ALSO_PHRASE, t)),
                           TokenRefs(SEE_ALSO_TOKEN, t))
       IN  ScanSenses([e EXCEPT !.senses[i] = t, !.crossRefs = cr, !.seeAlso = sa],
                      i + 1)

PostProcessEntry(e) ==
  ScanSenses([e EXCEPT !.word = normalize_text(e.word),
                       !.pos = IF e.pos # <<>> THEN normalize_text(e.pos) ELSE e.pos],
             1)

\* the body of "for e in entries" run on the Entry at position k
PostProcessAt(es, k) == [es EXCEPT ![k] = PostProcessEntry(es[k])]

\* the post-processing loop visiting the positions of es in the given order
RECURSIVE PostProcessIn(_, _)
PostProcessIn(es, order) ==
  IF order = <<>> THEN es
  ELSE PostProcessIn(PostProcessAt(es, Head(order)), Tail(order))

\* ------------------------------------------------------------------------
\* extract_page_entries as a function of the page and its number alone
\* ------------------------------------------------------------------------
\* the line loop of one column from line k on, then the flush at column end
RECURSIVE ClassifyFrom(_, _, _, _, _, _)
ClassifyFrom(col, k, cur, out, page_num, column) ==
  IF k > Len(col)
  THEN (IF cur # None THEN Append(out, cur[1]) ELSE out)
  ELSE LET r == Classify(col[k], cur, out, HeadLeft(col), IndentDelta(col),
                         None, page_num, column)
       IN  ClassifyFrom(col, k + 1, r.current, r.entries, page_num, column)

\* the column loop from column c (from 0) on
RECURSIVE ColumnsFrom(_, _, _, _)
ColumnsFrom(cols, c, out, page_num) ==
  IF c >= Len(cols) THEN out
  ELSE ColumnsFrom(cols, c + 1,
                   ClassifyFrom(cols[c + 1], 1, None, out, page_num, c),
                   page_num)

extract_page_entries(page, page_num) ==
  LET lines_data == LinesData(page)
      dx == detect_divider_x(page, lines_data)
      bands == ColBands(page, dx, Words(lines_data))
      out == ColumnsFrom(Columns(lines_data, bands), 0, <<>>, page_num)
  IN  [i \in 1..Len(out) |-> PostProcessEntry(out[i])]

\* ------------------------------------------------------------------------
\* Cross-reference resolution (parse_pages)
\* ------------------------------------------------------------------------
norm_key(s) == normalize_text(s)

strip_superscripts(s) == SelectSeq(s, LAMBDA c : c \notin Superscripts)

word_id(e) == e.word

\* index_norm.get(nk) or []
index_norm(es, nk) == SelectSeq(es, LAMBDA e : norm_key(e.word) = nk)

\* index_base.get(base) or []
index_base(es, base) ==
  SelectSeq(es, LAMBDA e : strip_superscripts(norm_key(e.word)) = base)

\* ResolveToken that appends an empty target for an unresolved token
ResolveToken_blank(es, token) ==
  LET nk == norm_key(token)
      cand == index_norm(es, nk)
      cand2 == index_base(es, strip_superscripts(nk))
  IN  IF Len(cand) = 1 THEN word_id(cand[1])
      ELSE IF Len(cand2) >= 1 THEN word_id(cand2[1])
      ELSE <<>>

\* ResolveToken that consults the superscript-stripped index first
ResolveToken_baseFirst(es, token) ==
  LET nk == norm_key(token)
      cand == index_norm(es, nk)
      cand2 == index_base(es, strip_superscripts(nk))
  IN  IF Len(cand2) >= 1 THEN word_id(cand2[1])
      ELSE IF Len(cand) = 1 THEN word_id(cand[1])
      ELSE nk

\* the target appended for one token
ResolveToken(es, token) ==
  LET nk == norm_key(token)
      cand == index_norm(es, nk)
      cand2 == index_base(es, strip_superscripts(nk))
  IN  IF Len(cand) = 1 THEN word_id(cand[1])
      ELSE IF Len(cand2) >= 1 THEN word_id(cand2[1])
      ELSE nk

\* resolve_list that appends nothing for an unresolved token
RECURSIVE resolve_list_skip(_, _)
resolve_list_skip(es, items) ==
  IF items = <<>> THEN <<>>
  ELSE LET nk == norm_key(Head(items))
           known == index_norm(es, nk) # <<>>
                      \/ index_base(es, strip_superscripts(nk)) # <<>>
       IN  (IF known THEN <<ResolveToken(es, Head(items))>> ELSE <<>>)
             \o resolve_list_skip(es, Tail(items))

RECURSIVE resolve_list(_, _)
resolve_list(es, items) ==
  IF items = <<>> THEN <<>>
  ELSE <<ResolveToken(es, Head(items))>> \o resolve_list(es, Tail(items))

\* ResolveEntry that extends the target lists it finds instead of replacing them
ResolveEntry_accumulate(es, e) ==
  [e EXCEPT !.crossRefTargets = @ \o resolve_list(es, e.crossRefs),
            !.seeAlsoTargets = @ \o resolve_list(es, e.seeAlso)]

\* ResolveEntry that writes the targets over the mentions as well
ResolveEntry_overwrite(es, e) ==
  [e EXCEPT !.crossRefs = resolve_list(es, e.crossRefs),
            !.seeAlso = resolve_list(es, e.seeAlso),
            !.crossRefTargets = resolve_list(es, e.crossRefs),
            !.seeAlsoTargets = resolve_list(es, e.seeAlso)]

\* e.crossRefTargets = ...; e.seeAlsoTargets = ...
ResolveEntry(es, e) ==
  [e EXCEPT !.crossRefTargets = resolve_list(es, e.crossRefs),
            !.seeAlsoTargets = resolve_list(es, e.seeAlso)]

ResolveAll(es) == [i \in 1..Len(es) |-> ResolveEntry(es, es[i])]

\* ------------------------------------------------------------------------
\* The page expression (parse_pages_arg, main)
\* ------------------------------------------------------------------------
\* pages_arg.split(c)
RECURSIVE split(_, _)
split(s, c) ==
  LET n == RunLenNot(s, 1, {c})
  IN  IF n = Len(s) THEN <<s>>
      ELSE <<Take(s, n)>> \o split(Drop(s, n + 1), c)

DigitSeq == <<"0", "1", "2", "3", "4", "5", "6", "7", "8", "9">>

DigitValue(c) == (CHOOSE i \in 1..Len(DigitSeq) : DigitSeq[i] = c) - 1

RECURSIVE DecimalValue(_)
DecimalValue(ds) ==
  IF ds = <<>> THEN 0
  ELSE 10 * DecimalValue(Take(ds, Len(ds) - 1)) + DigitValue(ds[Len(ds)])

\* int(s): Some(value), or None where Python raises ValueError.  Blanks
\* around the number, one sign and single underscores between digits are
\* accepted.
int(s) ==
  LET t == strip(s)
      signed == At(t, 1) \in {"-", "+"}
      body == IF signed THEN Tail(t) ELSE t
      wellformed ==
        /\ body # <<>>
        /\ \A i \in 1..Len(body) : body[i] \in Digits \cup {"_"}
        /\ body[1] # "_"
        /\ body[Len(body)] # "_"
        /\ \A i \in 1..(Len(body) - 1) : ~(body[i] = "_" /\ body[i + 1] = "_")
      value == DecimalValue(SelectSeq(body, LAMBDA c : c # "_"))
  IN  IF ~wellformed THEN None
      ELSE Some(IF At(t, 1) = "-" THEN 0 - value ELSE value)

\* the page numbers one comma-separated part contributes
PartPages(part) ==
  IF Find(part, "-") # 0
  THEN LET a == int(Take(part, Find(part, "-") - 1))
           b == int(Drop(part, Find(part, "-")))
       IN  IF a = None \/ b = None THEN {}
           ELSE IF a[1] <= b[1] THEN a[1]..b[1] ELSE b[1]..a[1]
  ELSE IF int(part) = None THEN {} ELSE {int(part)[1]}

\* sorted(set(result))
RECURSIVE SortedSet(_)
SortedSet(S) ==
  IF S = {} THEN <<>> ELSE <<SetMin(S)>> \o SortedSet(S \ {SetMin(S)})

parse_pages_arg(pages_arg, default) ==
  IF pages_arg = <<>> THEN default
  ELSE LET raw == split(pages_arg, ",")
           parts == SelectSeq([i \in 1..Len(raw) |-> strip(raw[i])],
                              LAMBDA q : q # <<>>)
       IN  SortedSet(UNION {PartPages(parts[i]) : i \in 1..Len(parts)})

\* args.pages.lower() in ('all', '*')
IsAll(pages_arg) ==
  [i \in 1..Len(pages_arg) |-> ToLower(pages_arg[i])] \in {<<"a", "l", "l">>, <<"*">>}

\* main: the page list for a page expression and a document of n pages
MainPages(pages_arg, n) ==
  IF IsAll(pages_arg) THEN [i \in 1..n |-> i]
  ELSE parse_pages_arg(pages_arg, <<1, 2, 3>>)

\* ------------------------------------------------------------------------
\* The JSON output (entries_to_simple, main)
\* ------------------------------------------------------------------------
\* " ".join(texts)
RECURSIVE JoinWithSpace(_)
JoinWithSpace(texts) ==
  IF texts = <<>> THEN <<>>
  ELSE IF Len(texts) = 1 THEN texts[1]
  ELSE texts[1] \o <<" ">> \o JoinWithSpace(Tail(texts))

SimpleRecord_noStrip(e) ==
  [word |-> e.word,
   pos |-> e.pos,
   definition |-> JoinWithSpace(e.senses),
   crossRefs |-> e.crossRefs,
   seeAlso |-> e.seeAlso,
   crossRefTargets |-> e.crossRefTargets,
   seeAlsoTargets |-> e.seeAlsoTargets,
   page |-> e.page,
   column |-> e.column]

\* the record of one Entry
SimpleRecord(e) ==
  [word |-> e.word,
   pos |-> e.pos,
   definition |-> strip(JoinWithSpace(e.senses)),
   crossRefs |-> e.crossRefs,
   seeAlso |-> e.seeAlso,
   crossRefTargets |-> e.crossRefTargets,
   seeAlsoTargets |-> e.seeAlsoTargets,
   page |-> e.page,
   column |-> e.column]

entries_to_simple(es) == [i \in 1..Len(es) |-> SimpleRecord(es[i])]

\* the document main writes for a page list and the parsed entries
JsonDocument(ps, es) ==
  LET simple == entries_to_simple(es)
  IN  [pages |-> ps, count |-> Len(simple), entries |-> simple]

\* ------------------------------------------------------------------------
\* The database (migrate_extracted_to_db.py)
\* ------------------------------------------------------------------------
\* the ids AUTOINCREMENT gives to n rows inserted after `last`
NewIds(last, n) == [i \in 1..n |-> last + i]

\* the entries rows of the records, in record order
EntryRows(records, last) ==
  [i \in 1..Len(records) |->
     [id |-> NewIds(last, Len(records))[i],
      word |-> records[i].word,
      pos |-> records[i].pos,
      definition |-> records[i].definition,
      page |-> records[i].page,
      column |-> records[i].column]]

\* word_to_ids.get(w): the ids of the rows inserted for word w, in order
word_to_ids(rows, w) ==
  LET hit == SelectSeq(rows, LAMBDA r : r.word = w)
  IN  [i \in 1..Len(hit) |-> hit[i].id]

\* resolve_word: the first id of the word, or None
resolve_word(rows, w) ==
  IF word_to_ids(rows, w) = <<>> THEN None ELSE Some(word_to_ids(rows, w)[1])

\* zip(tokens, targets) turned into refs rows without their ids
ZipRefs(rows, source_id, type, tokens, targets) ==
  LET n == IF Len(tokens) < Len(targets) THEN Len(tokens) ELSE Len(targets)
  IN  [i \in 1..n |->
         [source_id |-> source_id, type |-> type, target_word |-> tokens[i],
          target_id |-> resolve_word(rows, targets[i])]]

\* the refs of one record: its crossRefs, then its seeAlso
RecordRefs(rows, e) ==
  LET source_ids == word_to_ids(rows, e.word)
  IN  IF source_ids = <<>> THEN <<>>
      ELSE ZipRefs(rows, source_ids[1], "see", e.crossRefs, e.crossRefTargets)
             \o ZipRefs(rows, source_ids[1], "seealso", e.seeAlso, e.seeAlsoTargets)

\* migrate without recreate: the rows are added to those of the database
migrate_keep(data, old) ==
  LET records == data.entries
      rows == EntryRows(records, old.seq_entries)
      pending == Flatten([i \in 1..Len(records) |-> RecordRefs(rows, records[i])])
      ids == NewIds(old.seq_refs, Len(pending))
  IN  [entries |-> old.entries \o rows,
       refs |-> old.refs \o
                [i \in 1..Len(pending) |->
                   [id |-> ids[i], source_id |-> pending[i].source_id,
                    type |-> pending[i].type,
                    target_word |-> pending[i].target_word,
                    target_id |-> pending[i].target_id]],
       seq_entries |-> old.seq_entries + Len(records),
       seq_refs |-> old.seq_refs + Len(pending)]

\* recreate, then insert the entries and the refs of the JSON document
migrate(data, old) ==
  LET records == data.entries
      rows == EntryRows(records, old.seq_entries)
      pending == Flatten([i \in 1..Len(records) |-> RecordRefs(rows, records[i])])
      ids == NewIds(old.seq_refs, Len(pending))
  IN  [entries |-> rows,
       refs |-> [i \in 1..Len(pending) |->
                   [id |-> ids[i], source_id |-> pending[i].source_id,
                    type |-> pending[i].type,
                    target_word |-> pending[i].target_word,
                    target_id |-> pending[i].target_id]],
       seq_entries |-> old.seq_entries + Len(records),
       seq_refs |-> old.seq_refs + Len(pending)]

\* ------------------------------------------------------------------------
\* The /entry endpoint (app.py)
\* ------------------------------------------------------------------------
\* the Unicode code point of a character: SQLite's BINARY collation orders
\* UTF-8 text by code point
CodePoint(c) ==
  IF c \in Lowers THEN 96 + (CHOOSE i \in 1..26 : LowerSeq[i] = c)
  ELSE IF c \in Uppers THEN 64 + (CHOOSE i \in 1..26 : UpperSeq[i] = c)
  ELSE IF c \in Digits THEN 48 + DigitValue(c)
  ELSE CASE c = "\t" -> 9 [] c = "\n" -> 10 [] c = " " -> 32 [] c = "%" -> 37
         [] c = "'" -> 39 [] c = "(" -> 40 [] c = ")" -> 41 [] c = "*" -> 42
         [] c = "+" -> 43 [] c = "," -> 44 [] c = "-" -> 45 [] c = "." -> 46
         [] c = "/" -> 47 [] c = ":" -> 58 [] c = ";" -> 59 [] c = "_" -> 95
         [] c = "SUP2" -> 178 [] c = "SUP3" -> 179 [] c = "SUP1" -> 185
         [] c = "MODTC" -> 699 [] c = "MODAP" -> 700 [] c = "ARCOMMA" -> 1548
         [] c = "RSQUO" -> 8217 [] c = "PRIME" -> 8242 [] c = "ARROW" -> 8594

\* a < b in the BINARY collation
StrLess(a, b) ==
  \E k \in 1..(Len(b)) :
    /\ k <= Len(a) + 1
    /\ \A i \in 1..(k - 1) : a[i] = b[i]
    /\ (k = Len(a) + 1 \/ CodePoint(a[k]) < CodePoint(b[k]))

\* text LIKE pattern: % is any run, _ any one character, ASCII letters
\* compare without case
RECURSIVE LikeMatch(_, _)
LikeMatch(pattern, text) ==
  IF pattern = <<>> THEN text = <<>>
  ELSE IF Head(pattern) = "%"
  THEN \E k \in 0..Len(text) : LikeMatch(Tail(pattern), Drop(text, k))
  ELSE /\ text # <<>>
       /\ (Head(pattern) = "_" \/ ToLower(Head(pattern)) = ToLower(Head(text)))
       /\ LikeMatch(Tail(pattern), Tail(text))

\* ORDER BY word ASC over a set of distinct words
RECURSIVE SortedWords(_)
SortedWords(S) ==
  IF S = {} THEN <<>>
  ELSE LET m == CHOOSE x \in S : \A y \in S : ~StrLess(y, x)
       IN  <<m>> \o SortedWords(S \ {m})

\* the rows a "... LIMIT 1" lookup may return for the word, with the name of
\* the query that found them: the exact match, else the least word with the
\* prefix, else the full-text match.  The row SQLite picks among equal
\* candidates, and what the FTS5 engine matches and ranks first, are not
\* fixed by the program: any candidate may be returned.
LookupRows(d, word) ==
  LET rows == {d.entries[i] : i \in 1..Len(d.entries)}
      exact == {r \in rows : r.word = word}
      like == {r \in rows : LikeMatch(word \o <<"%">>, r.word)}
      least == {r \in like : \A q \in like : ~StrLess(q.word, r.word)}
  IN  IF exact # {} THEN {<<"exact", r>> : r \in exact}
      ELSE IF like # {} THEN {<<"like", r>> : r \in least}
      ELSE {<<"fts", r>> : r \in rows}

\* "SELECT type, target_word FROM refs WHERE source_id = ? ORDER BY id DESC"
LoadRefs_desc(d, eid) ==
  SortBy(SelectSeq(d.refs, LAMBDA r : r.source_id = eid),
         LAMBDA a, b : a.id > b.id)

\* "SELECT type, target_word FROM refs WHERE source_id = ? ORDER BY id ASC"
LoadRefs(d, eid) ==
  SortBy(SelectSeq(d.refs, LAMBDA r : r.source_id = eid),
         LAMBDA a, b : a.id < b.id)

\* the incoming refs joined with their source entries, ORDER BY e.word ASC
ReferredBy(d, eid, word) ==
  LET incoming == SelectSeq(d.refs, LAMBDA r :
                    r.target_id = Some(eid) \/ r.target_word = word)
      joined == Flatten([i \in 1..Len(incoming) |->
                  LET src == SelectSeq(d.entries, LAMBDA e : e.id = incoming[i].source_id)
                  IN  [j \in 1..Len(src) |-> src[j].word]])
  IN  SortBy(joined, StrLess)

\* similar words by prefix (3 letters), self excluded, at most 12
Similar(d, base) ==
  LET prefix == Take(base, 3)
      words == {d.entries[i].word : i \in 1..Len(d.entries)}
      found == SortedWords({w \in words :
                              LikeMatch(prefix \o <<"%">>, w) /\ w # base})
  IN  IF prefix = <<>> THEN <<>> ELSE Take(found, 12)

\* the result for the row found by the named query (the full-text query
\* selects no pos, page or column)
EntryResult(d, how, row) ==
  LET refs == LoadRefs(d, row.id)
      see == SelectSeq(refs, LAMBDA r : r.type = "see")
      other == SelectSeq(refs, LAMBDA r : r.type # "see")
  IN  [id |-> row.id,
       word |-> row.word,
       pos |-> IF how = "fts" THEN <<>> ELSE row.pos,
       definition |-> row.definition,
       page |-> IF how = "fts" THEN None ELSE Some(row.page),
       column |-> IF how = "fts" THEN None ELSE Some(row.column),
       crossRefs |-> [i \in 1..Len(see) |-> see[i].target_word],
       seeAlso |-> [i \in 1..Len(other) |-> other[i].target_word],
       referredBy |-> ReferredBy(d, row.id, row.word),
       similar |-> Similar(d, row.word)]

\* the responses entry_by_word may give to ?word=arg
entry_by_word(d, arg) ==
  LET word == strip(arg)
      found == LookupRows(d, word)
      viaFts == \A f \in found : f[1] = "fts"
  IN  IF word = <<>> THEN {[status |-> 400]}
      ELSE {[status |-> 200, entry |-> EntryResult(d, f[1], f[2])] : f \in found}
             \cup (IF viaFts THEN {[status |-> 404], [status |-> 500]} ELSE {})

\* ------------------------------------------------------------------------
\* The list endpoints /search, /words_by_letter and /all_words (app.py)
\* ------------------------------------------------------------------------
\* request.args.get(name, default): None stands for an argument the query
\* string does not carry, Some(text) for one it carries

\* int(request.args.get(name, default)): None where int raises ValueError
IntArg(arg, default) == IF arg = None THEN Some(default) ELSE int(arg[1])

\* max(1, v), without the cap at 200
ClampLimit_uncapped(v) ==
  IF v = None THEN 40
  ELSE IF v[1] < 1 THEN 1 ELSE v[1]

\* max(1, min(v, 200)), and 40 where int raised ValueError
ClampLimit(v) ==
  IF v = None THEN 40
  ELSE IF v[1] > 200 THEN 200
  ELSE IF v[1] < 1 THEN 1 ELSE v[1]

\* max(0, v), and 0 where int raised ValueError
ClampOffset(v) ==
  IF v = None THEN 0
  ELSE IF v[1] < 0 THEN 0 ELSE v[1]

\* limit = max(1, min(int(request.args.get('limit', 40)), 200)), and 40
\* on ValueError
limit(args) == ClampLimit(IntArg(args.limit, 40))

\* offset = max(0, int(request.args.get('offset', 0))), and 0 on ValueError
offset(args) == ClampOffset(IntArg(args.offset, 0))

\* str.upper, and UPPER of SQLite on the first character of a word
ToUpper(c) ==
  IF c \in Lowers THEN UpperSeq[CHOOSE i \in 1..26 : LowerSeq[i] = c] ELSE c

upper(s) == [i \in 1..Len(s) |-> ToUpper(s[i])]

\* the number of rows of a sorted list whose word is below w, or (strict
\* = FALSE) not above w
RECURSIVE CountBelow(_, _, _)
CountBelow(sorted, w, strict) ==
  IF sorted = <<>> THEN 0
  ELSE LET h == (Len(sorted) + 1) \div 2
           below == IF strict THEN StrLess(sorted[h].word, w)
                    ELSE ~StrLess(w, sorted[h].word)
       IN  IF below THEN h + CountBelow(Drop(sorted, h), w, strict)
           ELSE CountBelow(Take(sorted, h - 1), w, strict)

\* the merge step of the sorter: rows by word in the BINARY collation,
\* rows of a before rows of b of equal word
MergeByWord(a, b) ==
  LET at_a == SubSeq([i \in 1..Len(a) |-> i + CountBelow(b, a[i].word, TRUE)],
                     1, Len(a))
      at_b == SubSeq([j \in 1..Len(b) |-> j + CountBelow(a, b[j].word, FALSE)],
                     1, Len(b))
  IN  SubSeq([k \in 1..(Len(a) + Len(b)) |->
                IF \E i \in 1..Len(a) : at_a[i] = k
                THEN a[CHOOSE i \in 1..Len(a) : at_a[i] = k]
                ELSE b[CHOOSE j \in 1..Len(b) : at_b[j] = k]],
             1, Len(a) + Len(b))

RECURSIVE SortByWord(_)
SortByWord(rows) ==
  IF Len(rows) <= 1 THEN rows
  ELSE LET h == Len(rows) \div 2
       IN  MergeByWord(SortByWord(Take(rows, h)), SortByWord(Drop(rows, h)))

\* every sequence that lists each element of S once
Arrangements(S) ==
  {s \in [1..Cardinality(S) -> S] :
     \A i, j \in 1..Cardinality(S) : i # j => s[i] # s[j]}

\* the orders "ORDER BY word ASC" may produce: SQL leaves the order of rows
\* of equal word open
RECURSIVE OrderByWord(_)
OrderByWord(sorted) ==
  LET n == Len(sorted)
      cuts == {h \in 1..(n - 1) : sorted[h].word # sorted[h + 1].word}
      off(h) == IF 2 * h < n THEN n - 2 * h ELSE 2 * h - n
  IN  IF cuts = {} THEN Arrangements({sorted[i] : i \in 1..n})
      ELSE LET h == CHOOSE c \in cuts : \A e \in cuts : off(c) <= off(e)
           IN  {x \o y : x \in OrderByWord(Take(sorted, h)),
                         y \in OrderByWord(Drop(sorted, h))}

\* "LIMIT ? OFFSET ?" over the ordered rows
Page(rows, lim, off) == Take(Drop(rows, off), lim)

\* [(row['word'], row['definition']) for row in c.fetchall()]
ResultPairs(rows) == [i \in 1..Len(rows) |-> <<rows[i].word, rows[i].definition>>]

\* the characters the unicode61 tokenizer of entries_fts keeps in a token:
\* letters and numbers
IsTokenChar(c) ==
  c \in Letters \cup Digits \cup Superscripts \cup {"MODAP", "MODTC"}

\* the tokens of a text, folded to lower case
RECURSIVE fts_tokens(_)
fts_tokens(s) ==
  IF s = <<>> THEN <<>>
  ELSE IF ~IsTokenChar(s[1]) THEN fts_tokens(Tail(s))
  ELSE LET n == CHOOSE m \in 1..Len(s) :
                  /\ \A i \in 1..m : IsTokenChar(s[i])
                  /\ m = Len(s) \/ ~IsTokenChar(s[m + 1])
       IN  <<[i \in 1..n |-> ToLower(s[i])]>> \o fts_tokens(Drop(s, n))

\* a query of words separated by blanks, none of them an operator of the
\* FTS5 query language
PlainQuery(query) ==
  /\ \A i \in 1..Len(query) : IsTokenChar(query[i]) \/ query[i] = " "
  /\ \A w \in {split(query, " ")[i] : i \in 1..Len(split(query, " "))} :
       w \notin {<<"A","N","D">>, <<"O","R">>, <<"N","O","T">>, <<"N","E","A","R">>}

\* the sets of rows "entries_fts MATCH query + '*'" may select from a
\* database that migrate filled once (the index holds word and definition
\* of every row): for a plain query the rows that carry every word of the
\* query as a token and the last word as the beginning of a token.  What
\* the query language makes of any other text is left open, and None
\* stands for the OperationalError of a query it rejects.
fts_match(d, query) ==
  LET rows == {d.entries[i] : i \in 1..Len(d.entries)}
      toks(r) == LET t == fts_tokens(r.word) \o fts_tokens(r.definition)
                 IN  {t[i] : i \in 1..Len(t)}
      q == fts_tokens(query)
      hit(r) == /\ \A i \in 1..(Len(q) - 1) : q[i] \in toks(r)
                /\ \E t \in toks(r) : StartsWith(t, q[Len(q)])
  IN  IF PlainQuery(query) THEN {Some({r \in rows : hit(r)})}
      ELSE {None} \cup {Some(m) : m \in SUBSET rows}

\* the response that carries the rows of one page
ListAnswer(rows, total, lim, off) ==
  [status |-> 200, results |-> ResultPairs(rows), count |-> Len(rows),
   total_count |-> total, offset |-> off, limit |-> lim]

\* the responses for the page, one for each order the query may produce
PagedAnswers(orders, total, lim, off) ==
  {ListAnswer(Page(o, lim, off), total, lim, off) : o \in orders}

\* /search with its arguments read: the rank of FTS5 is not fixed by the
\* program, any order of the matching rows may be paged
SearchQuery(d, query, lim, off) ==
  LET answers ==
        IF query = <<>> THEN {ListAnswer(<<>>, 0, lim, off)}
        ELSE UNION {IF m = None THEN {[status |-> 500]}
                    ELSE PagedAnswers(Arrangements(m[1]), Cardinality(m[1]), lim, off) :
                    m \in fts_match(d, query)}
  IN  {IF a.status = 200 THEN a @@ ("query" :> query) ELSE a : a \in answers}

\* the responses /search may give
search(d, args) ==
  SearchQuery(d, strip(IF args.q = None THEN <<>> ELSE args.q[1]),
              limit(args), offset(args))

\* /words_by_letter with its arguments read
LetterQuery(d, letter, lim, off) ==
  LET chosen == SelectSeq(d.entries, LAMBDA r :
                  r.word # <<>> /\ <<ToUpper(r.word[1])>> = letter)
      answers ==
        IF letter = <<>> \/ Len(letter) # 1 THEN {ListAnswer(<<>>, 0, lim, off)}
        ELSE PagedAnswers(OrderByWord(SortByWord(chosen)), Len(chosen), lim, off)
  IN  {a @@ ("letter" :> letter) : a \in answers}

\* the responses /words_by_letter may give
words_by_letter(d, args) ==
  LetterQuery(d, upper(strip(IF args.letter = None THEN <<>> ELSE args.letter[1])),
              limit(args), offset(args))

\* the responses /all_words may give
all_words(d, args) ==
  PagedAnswers(OrderByWord(SortByWord(d.entries)), Len(d.entries),
               limit(args), offset(args))

\* ------------------------------------------------------------------------
\* Bounds and inputs
\* ------------------------------------------------------------------------
MaxLines == 3

MaxResolveRuns == 2

MaxMigrations == 2

MaxNormLen == 3

MaxWords == 4

\* headline-shaped lines of the columns built for the baseline estimate
MaxHeadLines == 7

\* a single-span line of text at left edge x0, top edge y0
Ln(text, x0, y0) ==
  LET bbox == <<x0, y0, x0 + 200, y0 + 10>>
  IN  [bbox |-> bbox, spans |-> <<[text |-> text, size |-> 10, bbox |-> bbox]>>]

\* a page whose i-th line is choice[i] = <<text, x0>>, one line every 20 units
Pg(choice, drawings) ==
  [width |-> 600, height |-> 1000, drawings |-> drawings,
   lines |-> [i \in 1..Len(choice) |-> Ln(choice[i][1], choice[i][2], 80 + 20 * i)]]

\* all sequences of at most n elements of V
SeqsUpTo(V, n) == UNION {[1..k -> V] : k \in 0..n}

\* ------------------------------------------------------------------------
\* State
\* ------------------------------------------------------------------------
VARIABLES
  args_pages,           \* main: the --pages expression, or None
  doc,                  \* the pages of the document (geometry provider output)
  pages,                \* the requested page numbers, 1-based
  pc,                   \* "main", "parse", "column", "line", "post", "done",
                        \* "written", "migrated", "served"; "detect" and
                        \* "detected" for a direct call of detect_columns;
                        \* "list" and "listed" for a direct request to a
                        \* list endpoint
  p_idx,                \* position in pages of the page being processed
  entries,              \* parse_pages: the entries collected so far
  divider_x,            \* extract_page_entries: the divider, or None
  col_bands,            \* the column bands of the page
  columns,              \* the lines of each band, top to bottom
  col_idx,              \* index (from 0) of the column being classified
  line_idx,             \* index (from 1) of the next line of the column
  page_entries,         \* extract_page_entries: the output list of the page
  current,              \* the Entry under construction, or None
  head_left,            \* baseline of the column, or None
  indent_delta,         \* continuation indent of the column
  carry_from_prev_col,  \* the carry-over slot
  resolve_runs,         \* number of resolver passes made over entries
  json_file,            \* main: the JSON document written, or None
  db,                   \* the SQLite database: tables entries and refs
  migrations,           \* number of runs of migrate
  response,             \* the last response of /entry, or None
  det_words,            \* detect_columns: the words argument of a direct call
  det_bands,            \* detect_columns: the bands returned, or None
  list_args,            \* a list endpoint: the arguments of a direct request
  list_response         \* a list endpoint: its response, or None

vars ==
  <<det_words, det_bands, list_args, list_response, args_pages, doc, pages, pc, p_idx, entries, divider_x, col_bands, columns, col_idx,
    line_idx, page_entries, current, head_left, indent_delta,
    carry_from_prev_col, resolve_runs, json_file, db, migrations, response>>

\* the argument and the result of a direct call of detect_columns, and of a
\* direct request to a list endpoint
callVars == <<det_words, det_bands, list_args, list_response>>

\* what lies downstream of parse_pages
outVars == <<json_file, db, migrations, response>>

pageVars ==
  <<divider_x, col_bands, columns, col_idx, line_idx, page_entries, current,
    head_left, indent_delta, carry_from_prev_col>>

\* a database with the schema and no rows
EmptyDb == [entries |-> <<>>, refs |-> <<>>, seq_entries |-> 0, seq_refs |-> 0]

\* a database that holds rows of another dictionary file
OldDb ==
  [entries |-> <<[id |-> 1, word |-> <<"o","l","d">>, pos |-> <<>>,
                  definition |-> <<"x">>, page |-> 9, column |-> 0],
                 [id |-> 2, word |-> <<"c","d">>, pos |-> <<>>,
                  definition |-> <<"y">>, page |-> 9, column |-> 0]>>,
   refs |-> <<[id |-> 1, source_id |-> 1, type |-> "see",
               target_word |-> <<"c","d">>, target_id |-> Some(2)]>>,
   seq_entries |-> 2, seq_refs |-> 1]

\* the state before parse_pages enters its loop, for a given input
Start(d, ps) ==
  /\ args_pages = None
  /\ doc = d
  /\ pages = ps
  /\ pc = "parse"
  /\ p_idx = 1
  /\ entries = <<>>
  /\ divider_x = None
  /\ col_bands = <<>>
  /\ columns = <<>>
  /\ col_idx = 0
  /\ line_idx = 1
  /\ page_entries = <<>>
  /\ current = None
  /\ head_left = None
  /\ indent_delta = 20
  /\ carry_from_prev_col = None
  /\ resolve_runs = 0
  /\ json_file = None
  /\ db = EmptyDb
  /\ migrations = 0
  /\ response = None
  /\ det_words = <<>>
  /\ det_bands = None
  /\ list_args = None
  /\ list_response = None

\* the same state with a database file left by an earlier use
StartOnDb(d, ps, old) ==
  /\ args_pages = None
  /\ doc = d
  /\ pages = ps
  /\ pc = "parse"
  /\ p_idx = 1
  /\ entries = <<>>
  /\ divider_x = None
  /\ col_bands = <<>>
  /\ columns = <<>>
  /\ col_idx = 0
  /\ line_idx = 1
  /\ page_entries = <<>>
  /\ current = None
  /\ head_left = None
  /\ indent_delta = 20
  /\ carry_from_prev_col = None
  /\ resolve_runs = 0
  /\ json_file = None
  /\ db = old
  /\ migrations = 0
  /\ response = None
  /\ det_words = <<>>
  /\ det_bands = None
  /\ list_args = None
  /\ list_response = None

\* the state when main has parsed its arguments (the document opens)
StartMain(d, arg) ==
  /\ args_pages = Some(arg)
  /\ doc = d
  /\ pages = <<>>
  /\ pc = "main"
  /\ p_idx = 1
  /\ entries = <<>>
  /\ divider_x = None
  /\ col_bands = <<>>
  /\ columns = <<>>
  /\ col_idx = 0
  /\ line_idx = 1
  /\ page_entries = <<>>
  /\ current = None
  /\ head_left = None
  /\ indent_delta = 20
  /\ carry_from_prev_col = None
  /\ resolve_runs = 0
  /\ json_file = None
  /\ db = EmptyDb
  /\ migrations = 0
  /\ response = None
  /\ det_words = <<>>
  /\ det_bands = None
  /\ list_args = None
  /\ list_response = None

\* the state before a direct call detect_columns(ws)
StartDetect(ws) ==
  /\ args_pages = None
  /\ doc = <<>>
  /\ pages = <<>>
  /\ pc = "detect"
  /\ p_idx = 1
  /\ entries = <<>>
  /\ divider_x = None
  /\ col_bands = <<>>
  /\ columns = <<>>
  /\ col_idx = 0
  /\ line_idx = 1
  /\ page_entries = <<>>
  /\ current = None
  /\ head_left = None
  /\ indent_delta = 20
  /\ carry_from_prev_col = None
  /\ resolve_runs = 0
  /\ json_file = None
  /\ db = EmptyDb
  /\ migrations = 0
  /\ response = None
  /\ det_words = ws
  /\ det_bands = None
  /\ list_args = None
  /\ list_response = None

\* the state before a direct request to a list endpoint, with arguments
\* args, on the database d
StartList(d, args) ==
  /\ args_pages = None
  /\ doc = <<>>
  /\ pages = <<>>
  /\ pc = "list"
  /\ p_idx = 1
  /\ entries = <<>>
  /\ divider_x = None
  /\ col_bands = <<>>
  /\ columns = <<>>
  /\ col_idx = 0
  /\ line_idx = 1
  /\ page_entries = <<>>
  /\ current = None
  /\ head_left = None
  /\ indent_delta = 20
  /\ carry_from_prev_col = None
  /\ resolve_runs = 0
  /\ json_file = None
  /\ db = d
  /\ migrations = 0
  /\ response = None
  /\ det_words = <<>>
  /\ det_bands = None
  /\ list_args = Some(args)
  /\ list_response = None

\* ------------------------------------------------------------------------
\* Actions
\* ------------------------------------------------------------------------
\* detect_columns(words) called on its own, with the default min_gap
DetectColumns ==
  /\ pc = "detect"
  /\ det_bands' = Some(detect_columns(det_words))
  /\ pc' = "detected"
  /\ UNCHANGED <<det_words, list_args, list_response, outVars, args_pages, doc,
                 pages, p_idx, entries, pageVars, resolve_runs>>

\* a request to /search
Search ==
  /\ pc = "list"
  /\ list_response' \in {Some(r) : r \in search(db, list_args[1])}
  /\ pc' = "listed"
  /\ UNCHANGED <<det_words, det_bands, list_args, outVars, args_pages, doc,
                 pages, p_idx, entries, pageVars, resolve_runs>>

\* a request to /words_by_letter
WordsByLetter ==
  /\ pc = "list"
  /\ list_response' \in {Some(r) : r \in words_by_letter(db, list_args[1])}
  /\ pc' = "listed"
  /\ UNCHANGED <<det_words, det_bands, list_args, outVars, args_pages, doc,
                 pages, p_idx, entries, pageVars, resolve_runs>>

\* a request to /all_words
AllWords ==
  /\ pc = "list"
  /\ list_response' \in {Some(r) : r \in all_words(db, list_args[1])}
  /\ pc' = "listed"
  /\ UNCHANGED <<det_words, det_bands, list_args, outVars, args_pages, doc,
                 pages, p_idx, entries, pageVars, resolve_runs>>

\* main: resolve the page expression, then call parse_pages
ResolvePagesArg ==
  /\ pc = "main"
  /\ pages' = MainPages(args_pages[1], Len(doc))
  /\ pc' = "parse"
  /\ UNCHANGED <<callVars, outVars, args_pages, doc, p_idx, entries, pageVars, resolve_runs>>

\* parse_pages: a page number outside the document is skipped
SkipPage ==
  /\ pc = "parse"
  /\ p_idx <= Len(pages)
  /\ (pages[p_idx] < 1 \/ pages[p_idx] > Len(doc))
  /\ p_idx' = p_idx + 1
  /\ UNCHANGED <<callVars, outVars, args_pages, doc, pages, pc, entries, pageVars, resolve_runs>>

\* LoadPage that starts the page with the output list of the page before
LoadPage_keepEntries ==
  /\ pc = "parse"
  /\ p_idx <= Len(pages)
  /\ pages[p_idx] >= 1
  /\ pages[p_idx] <= Len(doc)
  /\ LET page == doc[pages[p_idx]]
         lines_data == LinesData(page)
         dx == detect_divider_x(page, lines_data)
         bands == ColBands(page, dx, Words(lines_data))
     IN  /\ divider_x' = dx
         /\ col_bands' = bands
         /\ columns' = Columns(lines_data, bands)
  /\ page_entries' = entries
  /\ carry_from_prev_col' = None
  /\ col_idx' = 0
  /\ pc' = "column"
  /\ UNCHANGED <<callVars, outVars, args_pages, doc, pages, p_idx, entries, line_idx, current, head_left,
                 indent_delta, resolve_runs>>

\* extract_page_entries up to the column loop: collect the lines, detect
\* the divider, build the bands, assign and sort the lines
LoadPage ==
  /\ pc = "parse"
  /\ p_idx <= Len(pages)
  /\ pages[p_idx] >= 1
  /\ pages[p_idx] <= Len(doc)
  /\ LET page == doc[pages[p_idx]]
         lines_data == LinesData(page)
         dx == detect_divider_x(page, lines_data)
         bands == ColBands(page, dx, Words(lines_data))
     IN  /\ divider_x' = dx
         /\ col_bands' = bands
         /\ columns' = Columns(lines_data, bands)
  /\ page_entries' = <<>>
  /\ carry_from_prev_col' = None
  /\ col_idx' = 0
  /\ pc' = "column"
  /\ UNCHANGED <<callVars, outVars, args_pages, doc, pages, p_idx, entries, line_idx, current, head_left,
                 indent_delta, resolve_runs>>

\* the head of the column loop with the Entry of the previous column left open
BeginColumn_keepCurrent ==
  /\ pc = "column"
  /\ current' = current
  /\ head_left' = HeadLeft(columns[col_idx + 1])
  /\ indent_delta' = IndentDelta(columns[col_idx + 1])
  /\ line_idx' = 1
  /\ pc' = "line"
  /\ UNCHANGED <<callVars, outVars, args_pages, doc, pages, p_idx, entries, divider_x, col_bands, columns,
                 col_idx, page_entries, carry_from_prev_col, resolve_runs>>

\* the head of the column loop: no current Entry, baseline and indent
BeginColumn ==
  /\ pc = "column"
  /\ current' = None
  /\ head_left' = HeadLeft(columns[col_idx + 1])
  /\ indent_delta' = IndentDelta(columns[col_idx + 1])
  /\ line_idx' = 1
  /\ pc' = "line"
  /\ UNCHANGED <<callVars, outVars, args_pages, doc, pages, p_idx, entries, divider_x, col_bands, columns,
                 col_idx, page_entries, carry_from_prev_col, resolve_runs>>

\* one line of the column
ClassifyLine ==
  /\ pc = "line"
  /\ line_idx <= Len(columns[col_idx + 1])
  /\ \E r \in {Classify(columns[col_idx + 1][line_idx], current, page_entries,
                          head_left, indent_delta, carry_from_prev_col,
                          pages[p_idx], col_idx)} :
       /\ current' = r.current
       /\ page_entries' = r.entries
  /\ line_idx' = line_idx + 1
  /\ UNCHANGED <<callVars, outVars, args_pages, doc, pages, pc, p_idx, entries, divider_x, col_bands, columns,
                 col_idx, head_left, indent_delta, carry_from_prev_col,
                 resolve_runs>>

\* the flush with the open Entry appended twice
FlushColumn_twice ==
  /\ pc = "line"
  /\ line_idx > Len(columns[col_idx + 1])
  /\ page_entries' = IF current # None
                     THEN Append(Append(page_entries, current[1]), current[1])
                     ELSE page_entries
  /\ col_idx' = col_idx + 1
  /\ pc' = IF col_idx + 1 < Len(columns) THEN "column" ELSE "post"
  /\ UNCHANGED <<callVars, outVars, args_pages, doc, pages, p_idx, entries, divider_x, col_bands, columns,
                 line_idx, current, head_left, indent_delta,
                 carry_from_prev_col, resolve_runs>>

\* flush at column end, then the next column or the post-processing
FlushColumn ==
  /\ pc = "line"
  /\ line_idx > Len(columns[col_idx + 1])
  /\ page_entries' = IF current # None THEN Append(page_entries, current[1])
                     ELSE page_entries
  /\ col_idx' = col_idx + 1
  /\ pc' = IF col_idx + 1 < Len(columns) THEN "column" ELSE "post"
  /\ UNCHANGED <<callVars, outVars, args_pages, doc, pages, p_idx, entries, divider_x, col_bands, columns,
                 line_idx, current, head_left, indent_delta,
                 carry_from_prev_col, resolve_runs>>

\* post-process the page's entries, return them, entries.extend(...)
PostProcess ==
  /\ pc = "post"
  /\ entries' = entries \o [i \in 1..Len(page_entries) |->
                              PostProcessEntry(page_entries[i])]
  /\ p_idx' = p_idx + 1
  /\ pc' = "parse"
  /\ divider_x' = None
  /\ col_bands' = <<>>
  /\ columns' = <<>>
  /\ col_idx' = 0
  /\ line_idx' = 1
  /\ page_entries' = <<>>
  /\ current' = None
  /\ head_left' = None
  /\ indent_delta' = 20
  /\ carry_from_prev_col' = None
  /\ UNCHANGED <<callVars, outVars, args_pages, doc, pages, resolve_runs>>

\* the resolver pass at the end of parse_pages
Resolve ==
  /\ pc = "parse"
  /\ p_idx > Len(pages)
  /\ entries' = ResolveAll(entries)
  /\ resolve_runs' = 1
  /\ pc' = "done"
  /\ UNCHANGED <<callVars, outVars, args_pages, doc, pages, p_idx, pageVars>>

\* the same pass made again over the returned entries
ResolveAgain ==
  /\ pc = "done"
  /\ resolve_runs < MaxResolveRuns
  /\ entries' = ResolveAll(entries)
  /\ resolve_runs' = resolve_runs + 1
  /\ UNCHANGED <<callVars, outVars, args_pages, doc, pages, pc, p_idx, pageVars>>

\* main: entries_to_simple and the JSON document written to --out
WriteJson ==
  /\ pc = "done"
  /\ json_file' = Some(JsonDocument(pages, entries))
  /\ pc' = "written"
  /\ UNCHANGED <<callVars, args_pages, doc, pages, p_idx, entries, pageVars, resolve_runs,
                 db, migrations, response>>

\* a run of migrate on the JSON document
Migrate ==
  /\ pc \in {"written", "migrated"}
  /\ migrations < MaxMigrations
  /\ db' = migrate(json_file[1], db)
  /\ migrations' = migrations + 1
  /\ pc' = "migrated"
  /\ UNCHANGED <<callVars, args_pages, doc, pages, p_idx, entries, pageVars, resolve_runs,
                 json_file, response>>

\* the words requested from /entry: every stored word, a prefix, a word
\* that is not stored, a blank
RequestWords ==
  {db.entries[i].word : i \in 1..Len(db.entries)}
    \cup {<<"a">>, <<"z", "z">>, <<" ">>}

\* a request to /entry
EntryByWord ==
  /\ pc \in {"migrated", "served"}
  /\ \E arg \in RequestWords : response' \in {Some(r) : r \in entry_by_word(db, arg)}
  /\ pc' = "served"
  /\ UNCHANGED <<callVars, args_pages, doc, pages, p_idx, entries, pageVars, resolve_runs,
                 json_file, db, migrations>>

Next ==
  \/ ResolvePagesArg
  \/ SkipPage
  \/ LoadPage
  \/ BeginColumn
  \/ ClassifyLine
  \/ FlushColumn
  \/ PostProcess
  \/ Resolve
  \/ ResolveAgain
  \/ WriteJson
  \/ Migrate
  \/ EntryByWord
  \/ DetectColumns
  \/ Search
  \/ WordsByLetter
  \/ AllWords

\* ------------------------------------------------------------------------
\* Input texts
\* ------------------------------------------------------------------------
\* "ab f.dh cd"   headword, POS, first sense
T_head ==
  <<"a","b"," ","f",".","d","h"," ","c","d">>

\* "ab f.dh"   headword and POS, nothing after
T_bare ==
  <<"a","b"," ","f",".","d","h">>

\* "ab (x) f.dh cd"   alias parenthetical before the POS
T_alias ==
  <<"a","b"," ","(","x",")"," ","f",".","d","h"," ","c","d">>

\* "cd ef"   plain continuation
T_cont ==
  <<"c","d"," ","e","f">>

\* "2. cd"   numbered sense
T_num ==
  <<"2","."," ","c","d">>

\* "cd ab f.dh ef"   headword break in mid-line
T_glued ==
  <<"c","d"," ","a","b"," ","f",".","d","h"," ","e","f">>

\* "cd ab f.dh (q)"   headword break in mid-line, only an inflection after
\* the POS
T_gluedInfl ==
  <<"c","d"," ","a","b"," ","f",".","d","h"," ","(","q",")">>

\* "2. cd ab f.dh ef"   numbered sense with a headword break in mid-line
T_numGlued ==
  <<"2","."," ","c","d"," ","a","b"," ","f",".","d","h"," ","e","f">>

\* "b f.dh cd"   one-letter headword
T_short ==
  <<"b"," ","f",".","d","h"," ","c","d">>

\* "12. cd"   numbered sense, two digits
T_num12 ==
  <<"1","2","."," ","c","d">>

\* "ab m. cd"   single-letter POS followed by a space
T_single ==
  <<"a","b"," ","m","."," ","c","d">>

\* "c2 f.dh ef"   first token ends in an ASCII digit
T_digit ==
  <<"c","2"," ","f",".","d","h"," ","e","f">>

\* "ab f.dh eeg cd"
T_ref1 ==
  <<"a","b"," ","f",".","d","h"," ","e","e","g"," ","c","d">>

\* "ab^1 f.dh ld zz"
T_ref2 ==
  <<"a","b","SUP1"," ","f",".","d","h"," ","l","d"," ","z","z">>

\* "ab^2 f.dh eeg ab"
T_ref3 ==
  <<"a","b","SUP2"," ","f",".","d","h"," ","e","e","g"," ","a","b">>

\* "cd f.dh eeg ab^1, zz"
T_ref4 ==
  <<"c","d"," ","f",".","d","h"," ","e","e","g"," ","a","b","SUP1",","," ",
    "z","z">>

\* "cd f.dh ld ab^3"
T_ref5 ==
  <<"c","d"," ","f",".","d","h"," ","l","d"," ","a","b","SUP3">>

\* "eeg ab^2; ld cd"
T_ref6 ==
  <<"e","e","g"," ","a","b","SUP2",";"," ","l","d"," ","c","d">>

\* the lines of the scenario of section 8 of the specification
\* "word1 m. first sense."
T_scen1 ==
  <<"w","o","r","d","1"," ","m","."," ","f","i","r","s","t"," ","s","e","n",
    "s","e",".">>

\* "continued text."
T_scen2 ==
  <<"c","o","n","t","i","n","u","e","d"," ","t","e","x","t",".">>

\* "2. second sense."
T_scen3 ==
  <<"2","."," ","s","e","c","o","n","d"," ","s","e","n","s","e",".">>

\* "word2 f.dh another definition."
T_scen4 ==
  <<"w","o","r","d","2"," ","f",".","d","h"," ","a","n","o","t","h","e","r",
    " ","d","e","f","i","n","i","t","i","o","n",".">>

\* ------------------------------------------------------------------------
\* Page expressions
\* ------------------------------------------------------------------------
\* ""   the empty expression
A_empty ==
  <<>>

\* "x"   no page number at all
A_word ==
  <<"x">>

\* ","   separators only
A_comma ==
  <<",">>

\* "1"   one page
A_one ==
  <<"1">>

\* "2,1"   a list in descending order
A_list ==
  <<"2",",","1">>

\* "1-2"   a range
A_range ==
  <<"1","-","2">>

\* "2-1"   a range written backwards
A_rev ==
  <<"2","-","1">>

\* "0,2,3"   page numbers outside the document
A_mixed ==
  <<"0",",","2",",","3">>

\* "all"   every page
A_all ==
  <<"a","l","l">>

\* "All"   every page, capitalised
A_All ==
  <<"A","l","l">>

\* "*"   every page
A_star ==
  <<"*">>

\* "1--1"   a range down to a negative number
A_neg ==
  <<"1","-","-","1">>

\* "2,2,1"   a repeated page
A_dup ==
  <<"2",",","2",",","1">>

\* " 2 , 1 "   blanks around the numbers
A_blank ==
  <<" ","2"," ",","," ","1"," ">>

\* "1-x,2"   a malformed range and a page
A_bad ==
  <<"1","-","x",",","2">>

ArgChoices ==
  {A_empty, A_word, A_comma, A_one, A_list, A_range, A_rev, A_mixed, A_all,
   A_All, A_star, A_neg, A_dup, A_blank, A_bad}

\* the two-page documents main is run on
MainDocs ==
  {<<Pg(c1, None), Pg(c2, None)>> :
     c1 \in SeqsUpTo({<<T_head, 50>>, <<T_single, 50>>}, 1),
     c2 \in SeqsUpTo({<<T_glued, 50>>, <<T_bare, 50>>}, 1)}

\* ------------------------------------------------------------------------
\* Inputs of the specifications
\* ------------------------------------------------------------------------
\* a long vertical rule in the middle of the page, or no drawings at all
DrawingChoices == {None, Some(<<<<300, 60, 300, 940>>>>)}

\* classifier inputs of a one-column page: baseline 50, indent 70
LineChoices ==
  {<<T_head, 50>>, <<T_head, 60>>, <<T_head, 62>>, <<T_bare, 50>>,
   <<T_alias, 50>>, <<T_cont, 70>>, <<T_num, 70>>, <<T_glued, 50>>,
   <<T_single, 50>>, <<T_digit, 50>>}

\* classifier inputs of a two-column page: a second column at baseline 350,
\* indent 370
TwoColumnChoices ==
  {<<T_head, 50>>, <<T_cont, 70>>, <<T_head, 350>>, <<T_cont, 370>>}

ScenarioPage ==
  Pg(<<<<T_scen1, 50>>, <<T_scen2, 70>>, <<T_scen3, 70>>, <<T_scen4, 50>>>>, None)

\* a two-page document whose first page has two columns and lists its lines
\* out of reading order
OrderDoc ==
  <<[width |-> 600, height |-> 1000,
     drawings |-> Some(<<<<300, 60, 300, 940>>>>),
     lines |-> <<Ln(T_ref5, 350, 120), Ln(T_alias, 50, 160),
                 Ln(T_head, 50, 100), Ln(T_cont, 70, 140)>>],
    Pg(<<<<T_ref4, 50>>>>, None)>>

\* the enumerated part-of-speech tokens
POS_TOKENS ==
  {<<"m",".">>, <<"f",".">>, <<"g",".">>, <<"l",".">>, <<"m",".","d","h">>,
   <<"f",".","d","h">>, <<"m",".","l">>, <<"f",".","l">>, <<"g",".","1">>,
   <<"g",".","2">>, <<"g",".","3">>, <<"f",".","g","1">>,
   <<"f",".","g","2">>, <<"f",".","g","3">>, <<"f",".","m","g","1">>,
   <<"f",".","m","g","2">>, <<"f",".","m","g","3">>, <<"f",".","m","g","4">>,
   <<"m",".","f",".","d","h">>, <<"m",".","g">>, <<"f",".","g">>,
   <<"m",".","m","g">>, <<"f",".","m","g">>}

\* "ab <t> cd"   a headword, the token t, a definition text
TokenLine(t) == <<"a","b"," ">> \o t \o <<" ","c","d">>

\* lines that open an Entry in mid-line with nothing but an inflection after
\* the POS, and numbered senses that follow it
InflectionChoices ==
  {<<T_head, 50>>, <<T_gluedInfl, 50>>, <<T_num, 70>>, <<T_num12, 70>>}

\* lines with a headword break in mid-line at the baseline, near it, at the
\* indent, and inside a numbered sense
BreakChoices ==
  {<<T_head, 50>>, <<T_glued, 50>>, <<T_glued, 62>>, <<T_glued, 70>>,
   <<T_numGlued, 70>>}

\* headword-shaped lines at the baseline and 9 or 10 units right of it
PromoteChoices ==
  {<<T_head, 50>>, <<T_head, 60>>, <<T_short, 60>>, <<T_alias, 59>>}

\* word boxes 10 units wide; the gaps between neighbours are 25, 25, 40, 40
\* and 70 units
WordChoices ==
  {[x0 |-> a, x1 |-> a + 10] : a \in {0, 35, 70, 120, 170, 250}}

\* page lists over a two-page document, one with page numbers out of range
PageLists == {<<>>, <<1, 2>>, <<2, 1>>, <<0, 2, 3>>}

\* ------------------------------------------------------------------------
\* Inputs of the list endpoints
\* ------------------------------------------------------------------------
\* rows of the large dictionary: more than the cap of limit
ListedRows == 201

\* a record of the JSON document without mentions
PlainRecord(word, definition) ==
  [word |-> word, pos |-> <<"f",".","d","h">>, definition |-> definition,
   crossRefs |-> <<>>, seeAlso |-> <<>>, crossRefTargets |-> <<>>,
   seeAlsoTargets |-> <<>>, page |-> 1, column |-> 1]

\* "w" and the three decimal digits of i
NumberedWord(i) ==
  <<"w", DigitSeq[((i \div 100) % 10) + 1], DigitSeq[((i \div 10) % 10) + 1],
    DigitSeq[(i % 10) + 1]>>

\* the database after migrate on a document of ListedRows records without
\* mentions, words in descending order
LargeDb ==
  [entries |-> EntryRows([i \in 1..ListedRows |->
                            PlainRecord(NumberedWord(ListedRows + 1 - i), <<"l","d">>)],
                         0),
   refs |-> <<>>, seq_entries |-> ListedRows, seq_refs |-> 0]

\* the database after migrate on a document with two homographs:
\* "cd", "ab1" twice (superscript), "Abc"
SmallDb ==
  migrate([entries |-> <<PlainRecord(<<"c","d">>, <<"e","e","g"," ","a","b">>),
                         PlainRecord(<<"a","b","SUP1">>, <<"x">>),
                         PlainRecord(<<"a","b","SUP1">>, <<"l","d"," ","c","d">>),
                         PlainRecord(<<"A","b","c">>, <<"y">>)>>],
          EmptyDb)

\* limit arguments: absent, below 1, in range, at the cap, above it, blanks
\* around a number, not an integer, empty
LimitTexts ==
  {None, Some(<<"0">>), Some(<<"-","5">>), Some(<<"1">>), Some(<<"3">>),
   Some(<<"2","0","0">>), Some(<<"2","0","1">>), Some(<<"9","9","9">>),
   Some(<<" ","2"," ">>), Some(<<"a","b","c">>), Some(<<"1",".","5">>),
   Some(<<>>)}

\* offset arguments: absent, zero, negative, positive, not an integer
OffsetTexts ==
  {None, Some(<<"0">>), Some(<<"-","1">>), Some(<<"1">>), Some(<<"2">>),
   Some(<<"x">>)}

\* q and letter of a request on the small database: absent; a prefix and
\* its letter; two words and a padded letter; text outside the plain
\* queries and two letters
SmallQueries ==
  {<<None, None>>,
   <<Some(<<"a","b">>), Some(<<"a">>)>>,
   <<Some(<<"c","d"," ","e">>), Some(<<" ","C"," ">>)>>,
   <<Some(<<"a","'">>), Some(<<"a","b">>)>>}

\* requests on the small database
SmallRequests ==
  {[q |-> ql[1], letter |-> ql[2], limit |-> l, offset |-> o] :
     ql \in SmallQueries, l \in LimitTexts, o \in OffsetTexts}

\* requests on the large database: limits around the cap, offsets near the
\* start and near the end of the table
LargeRequests ==
  {[q |-> Some(<<"w","2","0">>), letter |-> Some(<<"w">>), limit |-> l, offset |-> o] :
     l \in {None, Some(<<"3">>), Some(<<"2","0","0">>), Some(<<"2","0","1">>),
            Some(<<"9","9","9">>)},
     o \in {None, Some(<<"2">>), Some(<<"1","9","9">>)}}

\* one request with the default limit and offset
DefaultRequest ==
  [q |-> Some(<<"a","b">>), letter |-> Some(<<"a">>), limit |-> None, offset |-> None]

Init ==
  \/ \E ch \in SeqsUpTo(LineChoices, MaxLines) : Start(<<Pg(ch, None)>>, <<1>>)
  \/ \E ch \in SeqsUpTo(TwoColumnChoices, MaxLines), dr \in DrawingChoices :
       Start(<<Pg(ch, dr)>>, <<1>>)
  \/ \E c1 \in SeqsUpTo(LineChoices, 1), c2 \in SeqsUpTo(LineChoices, 1),
        ps \in PageLists :
       Start(<<Pg(c1, None), Pg(c2, None)>>, ps)
  \/ Start(<<ScenarioPage>>, <<1>>)
  \/ \E d \in MainDocs, arg \in ArgChoices : StartMain(d, arg)
  \/ \E ps \in {<<1, 2>>, <<2, 1>>, <<1, 2, 1>>} : Start(OrderDoc, ps)
  \/ \E ch \in SeqsUpTo(InflectionChoices, MaxLines) :
       Start(<<Pg(ch, None)>>, <<1>>)
  \/ \E ch \in SeqsUpTo(BreakChoices, MaxLines) : Start(<<Pg(ch, None)>>, <<1>>)
  \/ \E ch \in SeqsUpTo(PromoteChoices, MaxLines) : Start(<<Pg(ch, None)>>, <<1>>)
  \/ \E t \in POS_TOKENS, c \in SeqsUpTo({<<T_head, 50>>}, 1) :
       Start(<<Pg(c \o <<<<TokenLine(t), 50>>>>, None)>>, <<1>>)
  \/ \E ws \in SeqsUpTo(WordChoices, 1) : StartDetect(ws)
  \/ StartList(SmallDb, DefaultRequest)

Spec == Init /\ [][Next]_vars

\* resolver inputs: homographs, cross-references and see-also mentions
RefChoices ==
  {<<T_ref1, 50>>, <<T_ref2, 50>>, <<T_ref3, 50>>, <<T_ref4, 50>>,
   <<T_ref5, 50>>, <<T_ref6, 70>>}

InitResolve ==
  \/ \E ch \in SeqsUpTo(RefChoices, MaxLines) : Start(<<Pg(ch, None)>>, <<1>>)
  \/ \E c1 \in SeqsUpTo(RefChoices, 1), c2 \in SeqsUpTo(RefChoices, 1),
        ps \in PageLists :
       Start(<<Pg(c1, None), Pg(c2, None)>>, ps)
  \/ \E c1 \in RefChoices, c2 \in RefChoices, arg \in {A_all, A_list} :
       StartMain(<<Pg(<<c1>>, None), Pg(<<c2>>, None)>>, arg)
  \/ \E ch \in SeqsUpTo(RefChoices, 1) : StartOnDb(<<Pg(ch, None)>>, <<1>>, OldDb)
  \/ \E ws \in SeqsUpTo(WordChoices, 1) : StartDetect(ws)
  \/ StartList(SmallDb, DefaultRequest)

SpecResolve == InitResolve /\ [][Next]_vars

\* segmentation inputs: left edges across the whole page width, drawings
\* that qualify as a divider and drawings that do not
EdgeChoices ==
  {<<T_cont, 0>>, <<T_cont, 1>>, <<T_cont, 3>>, <<T_head, 300>>,
   <<T_cont, 597>>, <<T_cont, 600>>}

RuleChoices ==
  {None,
   Some(<<>>),
   Some(<<<<300, 60, 300, 940>>>>),
   Some(<<<<100, 60, 100, 940>>, <<181, 60, 181, 700>>>>),
   Some(<<<<300, 60, 301, 940>>, <<419, 940, 419, 60>>>>),
   Some(<<<<300, 400, 300, 1000>>>>)}

\* left edges of headline-shaped lines
HeadEdges == {50, 58}

InitColumns ==
  \/ \E ch \in SeqsUpTo(EdgeChoices, MaxLines), dr \in RuleChoices,
        ps \in {<<1>>, <<2, 1>>} :
       Start(<<Pg(ch, dr)>>, ps)
  \/ \E ch \in SeqsUpTo(EdgeChoices, 1), dr \in RuleChoices, arg \in {A_all, A_one} :
       StartMain(<<Pg(ch, dr)>>, arg)
  \/ \E n \in {MaxHeadLines - 1, MaxHeadLines} : \E xs \in [1..n -> HeadEdges] :
       Start(<<Pg([i \in 1..n |-> <<T_head, xs[i]>>], None)>>, <<1>>)
  \/ \E ws \in SeqsUpTo(WordChoices, MaxWords) : StartDetect(ws)
  \/ StartList(SmallDb, DefaultRequest)

SpecColumns == InitColumns /\ [][Next]_vars

\* ------------------------------------------------------------------------
\* Inputs with cross-reference and see-also mentions
\* ------------------------------------------------------------------------
\* "ab f.dh eeg biyo, webi"   the mention right after the POS
X_head ==
  <<"a","b"," ","f",".","d","h"," ","e","e","g"," ","b","i","y","o",","," ",
    "w","e","b","i">>

\* "(eeg biyo, webi) cd"   a bracketed mention on a continuation line
X_cont ==
  <<"(","e","e","g"," ","b","i","y","o",","," ","w","e","b","i",")"," ","c",
    "d">>

\* "2. eeg webi; ld biyo"   a numbered sense that repeats a token
X_num1 ==
  <<"2","."," ","e","e","g"," ","w","e","b","i",";"," ","l","d"," ","b","i",
    "y","o">>

\* "2. ld biyo, biyo. ld webi"   a numbered sense with a repeated see-also token
X_num2 ==
  <<"2","."," ","l","d"," ","b","i","y","o",","," ","b","i","y","o","."," ",
    "l","d"," ","w","e","b","i">>

\* "eeg webi"   a mention that runs on from the line before
X_more ==
  <<"e","e","g"," ","w","e","b","i">>

\* "2. eeg b(U+2019)o. eeg b'o"   two spellings of one normalized token
X_apos ==
  <<"2","."," ","e","e","g"," ","b","RSQUO","o","."," ","e","e","g"," ","b",
    "'","o">>

\* "cd f.dh ef"   a headword line without a mention
X_plain ==
  <<"c","d"," ","f",".","d","h"," ","e","f">>

\* "a(RSQUO)b  f.dh(TAB)c(PRIME)d "   apostrophe variants, a run of spaces, a
\* tab, a trailing space
N_apos ==
  <<"a","RSQUO","b"," "," ","f",".","d","h","\t","c","PRIME","d"," ">>

\* " (NL) c(MODAP)d  e(MODTC)f"   leading whitespace with a newline
N_lead ==
  <<" ","\n"," ","c","MODAP","d"," "," ","e","MODTC","f">>

\* a line of whitespace only
N_blank ==
  <<" "," ">>

NormChoices == {<<N_apos, 50>>, <<N_lead, 70>>, <<N_blank, 70>>}

\* the characters of the raw strings given to normalize_text
NormAlphabet == {"a", "RSQUO", "MODTC", " ", "\n"}

\* baseline 50, indent 70
MentionChoices ==
  {<<X_head, 50>>, <<X_cont, 70>>, <<X_num1, 70>>, <<X_num2, 70>>,
   <<X_more, 70>>, <<X_apos, 70>>, <<X_plain, 50>>}

\* "ab f.dh c - d - e"   two wrap hyphens in the definition
H_two ==
  <<"a","b"," ","f",".","d","h"," ","c"," ","-"," ","d"," ","-"," ","e">>

\* "(eeg b - o, webi) cd"   a wrap hyphen inside a mention
H_ref ==
  <<"(","e","e","g"," ","b"," ","-"," ","o",","," ","w","e","b","i",")"," ",
    "c","d">>

\* baseline 50, indent 70
HyphenChoices ==
  {<<H_two, 50>>, <<H_ref, 70>>, <<X_head, 50>>, <<X_num2, 70>>}

InitMentions ==
  \/ \E ch \in SeqsUpTo(MentionChoices, MaxLines), ps \in {<<1>>, <<2, 1>>} :
       Start(<<Pg(ch, None)>>, ps)
  \/ \E ch \in SeqsUpTo(MentionChoices, 1), arg \in {A_all, A_one} :
       StartMain(<<Pg(ch, None)>>, arg)
  \/ \E ch \in SeqsUpTo(NormChoices, MaxLines) : Start(<<Pg(ch, None)>>, <<1>>)
  \/ \E t \in SeqsUpTo(NormAlphabet, MaxNormLen) :
       Start(<<Pg(<<<<t, 50>>>>, None)>>, <<1>>)
  \/ \E ch \in SeqsUpTo(HyphenChoices, MaxLines) : Start(<<Pg(ch, None)>>, <<1>>)
  \/ \E ws \in SeqsUpTo(WordChoices, 1) : StartDetect(ws)
  \/ \E r \in SmallRequests : StartList(SmallDb, r)
  \/ \E r \in LargeRequests : StartList(LargeDb, r)

SpecMentions == InitMentions /\ [][Next]_vars

\* ------------------------------------------------------------------------
\* Properties
\* ------------------------------------------------------------------------
\* the word, POS and sense texts of every entry of a list
Summary(es) ==
  [i \in 1..Len(es) |-> <<es[i].word, es[i].pos, es[i].senses>>]

\* the Entry fields the resolver is not to touch
Frame(e) ==
  <<e.word, e.pos, e.senses, e.crossRefs, e.seeAlso, e.page, e.column, e.bbox>>

\* "word1"
E_word1 ==
  <<"w","o","r","d","1">>

\* "word2"
E_word2 ==
  <<"w","o","r","d","2">>

\* "first sense. continued text."
E_sense1 ==
  <<"f","i","r","s","t"," ","s","e","n","s","e","."," ","c","o","n","t","i",
    "n","u","e","d"," ","t","e","x","t",".">>

\* "another definition."
E_sense2 ==
  <<"a","n","o","t","h","e","r"," ","d","e","f","i","n","i","t","i","o","n",
    ".">>

\* C1: the scenario column (lines at left edges 50, 70, 70, 50) yields exactly
\* two entries: word1, POS "m.", senses "first sense. continued text." and
\* "2. second sense."; then word2, POS "f.dh", one sense.
C1_Scenario ==
  (pc = "done" /\ doc = <<ScenarioPage>>) =>
    Summary(entries) =
      <<<<E_word1, <<"m", ".">>, <<E_sense1, T_scen3>>>>,
        <<E_word2, <<"f", ".", "d", "h">>, <<E_sense2>>>>>>

\* C2: every Entry of the output of parse_pages has at least one Sense.
C2_EveryEntryHasSense ==
  pc = "done" => \A i \in 1..Len(entries) : entries[i].senses # <<>>

\* C3: every emitted Entry (in the output list of the page being processed
\* and in the output of parse_pages) has a non-empty word after trimming.
C3_NonEmptyWord ==
  /\ \A i \in 1..Len(page_entries) : strip(page_entries[i].word) # <<>>
  /\ \A i \in 1..Len(entries) : strip(entries[i].word) # <<>>

\* the output holds an Entry started by a headword line (its POS is stored)
\* and one started by a promotion or an inline break (no POS stored)
C3_Witness ==
  /\ pc = "done"
  /\ \E i \in 1..Len(entries) : entries[i].pos # <<>>
  /\ \E i \in 1..Len(entries) : entries[i].pos = <<>>

\* the line the classifier has just processed
LastLine == columns[col_idx + 1][line_idx - 1]

\* the last step classified a line as a new headword (rule 2)
JustStartedHeadword ==
  /\ pc = "line"
  /\ line_idx > 1
  /\ LineText(LastLine) # <<>>
  /\ PosInLine(LineText(LastLine))
  /\ IsHeadAligned(LastLine.bbox[1], head_left)

\* the text of a headline-shaped line that precedes the matched POS token
BeforePos(text) ==
  LET tmp == StripAliases(normalize_text(HEADLINE_PATTERN(text).rest))
  IN  rstrip(Take(text, Len(text) - Len(tmp)))

\* the text that precedes the first space of a line
FirstToken(text) == Take(text, Find(text, " ") - 1)

\* C4 as stated: the word of an Entry started by a new-headword line is the
\* normalized text that precedes the matched POS token, alias included.
C4_WordIsTextBeforePos ==
  JustStartedHeadword =>
    current # None /\ current[1].word = BeforePos(LineText(LastLine))

\* C4 amended: the word of an Entry started by a new-headword line is the
\* first token of the line (the text before its first space), without
\* leading or trailing whitespace; an alias parenthetical between that token
\* and the POS token is not part of the word.
C4_WordIsFirstToken ==
  JustStartedHeadword =>
    /\ current # None
    /\ current[1].word = FirstToken(LineText(LastLine))
    /\ current[1].word # <<>>
    /\ strip(current[1].word) = current[1].word

\* a new-headword line with an alias between the first token and the POS
C4_Witness ==
  /\ JustStartedHeadword
  /\ BeforePos(LineText(LastLine)) # FirstToken(LineText(LastLine))

\* C5: when the previous column ended with an Entry open and the first line
\* of this column is indented and not a baseline-aligned headword+POS line,
\* that Entry is adopted as current (the line is not discarded).
C5_CarryOverAdopted ==
  ( /\ pc = "line"
    /\ line_idx = 2
    /\ col_idx >= 1
    /\ page_entries # <<>>
    /\ page_entries[Len(page_entries)].column = col_idx - 1
    /\ head_left # None
    /\ LineText(LastLine) # <<>>
    /\ IsIndented(LastLine.bbox[1], head_left, indent_delta)
    /\ ~(IsHeadAligned(LastLine.bbox[1], head_left) /\ PosInLine(LineText(LastLine))) )
  => current # None

\* C6: the column bands of every page are sorted by ascending x0 and
\* adjacent bands do not overlap (band[i].x1 <= band[i+1].x0).
C6_BandsOrdered ==
  \A i \in 1..(Len(col_bands) - 1) :
    /\ RLe(col_bands[i][1], col_bands[i + 1][1])
    /\ RLe(col_bands[i][2], col_bands[i + 1][1])

\* two bands on either side of an estimated divider
C6_Witness ==
  /\ pc = "column"
  /\ Len(col_bands) = 2
  /\ DrawnDivider(doc[pages[p_idx]]) = None
  /\ RLt(col_bands[1][1], col_bands[1][2])

\* C7: after parse_pages the target lists are as long as the mention lists
\* and the target at index i is the resolution of the mention at index i.
C7_TargetsAligned ==
  pc = "done" =>
    \A i \in 1..Len(entries) :
      LET e == entries[i]
      IN  /\ Len(e.crossRefTargets) = Len(e.crossRefs)
          /\ Len(e.seeAlsoTargets) = Len(e.seeAlso)
          /\ \A k \in 1..Len(e.crossRefs) :
               e.crossRefTargets[k] = ResolveToken(entries, e.crossRefs[k])
          /\ \A k \in 1..Len(e.seeAlso) :
               e.seeAlsoTargets[k] = ResolveToken(entries, e.seeAlso[k])

\* an Entry with two cross-references, one of them unknown to the batch
C7_Witness ==
  /\ pc = "done"
  /\ \E i \in 1..Len(entries) :
       /\ Len(entries[i].crossRefs) >= 2
       /\ \E k \in 1..Len(entries[i].crossRefs) :
            /\ index_norm(entries, entries[i].crossRefs[k]) = <<>>
            /\ index_base(entries, strip_superscripts(entries[i].crossRefs[k])) = <<>>

\* C8: a second resolver pass over the same entries leaves every
\* crossRefTargets and seeAlsoTargets list as the first pass made it.
C8_RerunSameTargets ==
  [][(pc = "done" /\ pc' = "done") =>
       /\ Len(entries') = Len(entries)
       /\ \A i \in 1..Len(entries) :
            /\ entries'[i].crossRefTargets = entries[i].crossRefTargets
            /\ entries'[i].seeAlsoTargets = entries[i].seeAlsoTargets]_vars

\* two passes made over entries that carry targets
C8_Witness ==
  /\ pc = "done"
  /\ resolve_runs = 2
  /\ \E i \in 1..Len(entries) : entries[i].crossRefTargets # <<>>
  /\ \E i \in 1..Len(entries) : entries[i].seeAlsoTargets # <<>>

\* the token matches no Entry of the batch in either index
Unmatched(token) ==
  \A j \in 1..Len(entries) :
    /\ norm_key(entries[j].word) # norm_key(token)
    /\ strip_superscripts(norm_key(entries[j].word))
         # strip_superscripts(norm_key(token))

\* C9: a mention that matches no Entry in either index resolves to its own
\* normalized string; it keeps its place in the target list.
C9_UnmatchedKeepsToken ==
  pc = "done" =>
    \A i \in 1..Len(entries) :
      LET e == entries[i]
      IN  /\ \A k \in 1..Len(e.crossRefs) :
               Unmatched(e.crossRefs[k]) =>
                 /\ k <= Len(e.crossRefTargets)
                 /\ e.crossRefTargets[k] = normalize_text(e.crossRefs[k])
          /\ \A k \in 1..Len(e.seeAlso) :
               Unmatched(e.seeAlso[k]) =>
                 /\ k <= Len(e.seeAlsoTargets)
                 /\ e.seeAlsoTargets[k] = normalize_text(e.seeAlso[k])

\* an unmatched cross-reference and an unmatched see-also mention
C9_Witness ==
  /\ pc = "done"
  /\ \E i \in 1..Len(entries) :
       \E k \in 1..Len(entries[i].crossRefs) : Unmatched(entries[i].crossRefs[k])
  /\ \E i \in 1..Len(entries) :
       \E k \in 1..Len(entries[i].seeAlso) : Unmatched(entries[i].seeAlso[k])

\* C10: a resolver pass changes nothing but crossRefTargets and
\* seeAlsoTargets: the entries, their order, word, pos, senses, mentions,
\* page and column stay as they are.
C10_ResolveFrame ==
  [][pc' = "done" =>
       /\ Len(entries') = Len(entries)
       /\ \A i \in 1..Len(entries) : Frame(entries'[i]) = Frame(entries[i])]_vars

\* a resolved target that differs from its mention
C10_Witness ==
  /\ pc = "done"
  /\ \E i \in 1..Len(entries) :
       \E k \in 1..Len(entries[i].crossRefs) :
         entries[i].crossRefTargets[k] # entries[i].crossRefs[k]

\* ------------------------------------------------------------------------
\* Cross-reference mentions (post-processing)
\* ------------------------------------------------------------------------
\* sub occurs in t from position s on
OccursAt(t, sub, s) ==
  /\ s >= 1
  /\ s + Len(sub) - 1 <= Len(t)
  /\ SubSeq(t, s, s + Len(sub) - 1) = sub

\* sub occurs somewhere in t
Contains(t, sub) == \E s \in 1..Len(t) : OccursAt(t, sub, s)

\* no element of the list occurs twice
NoDup(list) ==
  \A i \in 1..Len(list), j \in 1..Len(list) : list[i] = list[j] => i = j

\* "eeg biyo, webi"
E_mention ==
  <<"e","e","g"," ","b","i","y","o",","," ","w","e","b","i">>

\* "biyo"
E_biyo ==
  <<"b","i","y","o">>

\* "webi"
E_webi ==
  <<"w","e","b","i">>

\* the mention stands in t at s as a whole cue phrase: it starts a word and
\* runs to the end of the text or to a phrase terminator
MentionAt(t, s) ==
  /\ OccursAt(t, E_mention, s)
  /\ (s = 1 \/ ~IsWordChar(t[s - 1]))
  /\ (s + Len(E_mention) > Len(t) \/ t[s + Len(E_mention)] \in PhraseTerminators)

\* no cue keyword stands in the Entry before position s of sense k
NoCueBefore(e, k, s) ==
  /\ \A j \in 1..(k - 1) : ~Contains(e.senses[j], Eeg) /\ ~Contains(e.senses[j], <<"ARROW">>)
  /\ ~Contains(Take(e.senses[k], s - 1), Eeg)
  /\ ~Contains(Take(e.senses[k], s - 1), <<"ARROW">>)

\* no cue keyword stands in the Entry after the mention at s of sense k
NoCueAfter(e, k, s) ==
  /\ \A j \in (k + 1)..Len(e.senses) :
       ~Contains(e.senses[j], Eeg) /\ ~Contains(e.senses[j], <<"ARROW">>)
  /\ ~Contains(Drop(e.senses[k], s + Len(E_mention) - 1), Eeg)
  /\ ~Contains(Drop(e.senses[k], s + Len(E_mention) - 1), <<"ARROW">>)

C12_NoDuplicateRefs ==
  \A i \in 1..Len(entries) :
    /\ NoDup(entries[i].crossRefs)
    /\ NoDup(entries[i].seeAlso)

\* an Entry two of whose senses mention "webi" after the cue (the phrase
\* matcher and the single-token matcher both capture it), with a see-also
\* reference as well
C12_Witness ==
  /\ pc = "done"
  /\ \E i \in 1..Len(entries) :
       LET e == entries[i]
       IN  /\ Len(e.senses) >= 2
           /\ Contains(e.senses[1], E_mention)
           /\ \E k \in 2..Len(e.senses) :
                Contains(e.senses[k], Eeg \o <<" ">> \o E_webi)
           /\ E_webi \in {e.crossRefs[j] : j \in 1..Len(e.crossRefs)}
           /\ e.seeAlso # <<>>

\* ------------------------------------------------------------------------
\* Zero pages requested
\* ------------------------------------------------------------------------
\* the expression names at least one page: it is "all"/"*" or holds a digit
NamesAPage(pages_arg) ==
  \/ IsAll(pages_arg)
  \/ \E i \in 1..Len(pages_arg) : pages_arg[i] \in Digits

\* C13: a request for zero pages is signalled as an error: parse_pages never
\* completes with a result for an empty page list, and main never goes on to
\* parse pages for an expression that names no page.
C13_ZeroPagesSignalled ==
  /\ pc = "done" => pages # <<>>
  /\ (args_pages # None /\ pc # "main") => NamesAPage(args_pages[1])

\* ------------------------------------------------------------------------
\* Geometry gaps
\* ------------------------------------------------------------------------
\* the page being processed
CurrentPage == doc[pages[p_idx]]

\* the left edges of the lines form one cluster: sorted, no two consecutive
\* edges are more than min_gap apart
OneCluster(lines_data) ==
  LET X == {lines_data[i].bbox[1] : i \in 1..Len(lines_data)}
  IN  \A x \in X : x = SetMin(X) \/ \E y \in X : y < x /\ x - y <= min_gap

\* C14: a page with no lines after margin filtering, or one with no
\* qualifying divider segment whose lines all share one left-edge cluster, is
\* processed with exactly one full-width column band.
C14_SingleFullWidthBand ==
  ( /\ pc \in {"column", "line", "post"}
    /\ \/ LinesData(CurrentPage) = <<>>
       \/ /\ DrawnDivider(CurrentPage) = None
          /\ OneCluster(LinesData(CurrentPage)) )
  => col_bands = <<<<Rat(0), Rat(CurrentPage.width)>>>>

\* ------------------------------------------------------------------------
\* Order of the output
\* ------------------------------------------------------------------------
\* the pages of the entries follow the order of the page list
PagesInListOrder(es) ==
  \A i \in 1..Len(es), j \in 1..Len(es) :
    i < j => \E a \in 1..Len(pages), b \in 1..Len(pages) :
               a <= b /\ pages[a] = es[i].page /\ pages[b] = es[j].page

\* ascending column index and, within a column, the top-to-bottom order of
\* the lines that started the entries
ColumnsThenLines(es) ==
  \A i \in 1..Len(es), j \in 1..Len(es) :
    i < j => \/ es[i].column < es[j].column
             \/ es[i].column = es[j].column /\ es[i].bbox[2] <= es[j].bbox[2]

\* C15: pages are processed in the order of the page list, one position at a
\* time, and the output is the concatenation in that order of each page's
\* entries; the entries of a page are in ascending column index and, within a
\* column, in the top-to-bottom order of the lines that started them.
C15_OutputOrder ==
  [][ /\ p_idx' \in {p_idx, p_idx + 1}
      /\ PagesInListOrder(entries')
      /\ ColumnsThenLines(page_entries')
      /\ pc = "post" =>
           /\ Len(entries') = Len(entries) + Len(page_entries)
           /\ SubSeq(entries', 1, Len(entries)) = entries
           /\ \A i \in 1..Len(page_entries) :
                /\ entries'[Len(entries) + i].bbox = page_entries[i].bbox
                /\ entries'[Len(entries) + i].column = page_entries[i].column
                /\ entries'[Len(entries) + i].page = pages[p_idx]
      /\ pc # "post" /\ pc' # "done" => Len(entries') = Len(entries) ]_vars

\* the output for the page list 2, 1: the entry of page 2, then the entries
\* of page 1, left column before right column, although the page lists a
\* line of the right column first and the left column's lines bottom-up
C15_Witness ==
  /\ pc = "done"
  /\ doc = OrderDoc
  /\ pages = <<2, 1>>
  /\ [i \in 1..Len(entries) |-> <<entries[i].page, entries[i].column, entries[i].bbox[2]>>]
       = <<<<2, 1, 100>>, <<1, 0, 100>>, <<1, 0, 160>>, <<1, 1, 120>>>>

\* ------------------------------------------------------------------------
\* Independence of the pages
\* ------------------------------------------------------------------------
\* the page numbers of the list that lie in the document
ValidPages == SelectSeq(pages, LAMBDA q : q >= 1 /\ q <= Len(doc))

\* an Entry without its resolved targets
Raw(e) == [e EXCEPT !.crossRefTargets = <<>>, !.seeAlsoTargets = <<>>]

\* the targets of e's cross-references had its page been the whole batch
OwnPageTargets(e) ==
  resolve_list(extract_page_entries(doc[e.page], e.page), e.crossRefs)

\* C16: apart from the resolved targets, the entries of a page in the output
\* are those the page yields by itself (a function of the page and its number
\* only), whatever other pages are in the batch and in whatever order.
C16_PageIndependent ==
  pc = "done" =>
    [i \in 1..Len(entries) |-> Raw(entries[i])] =
      Flatten([k \in 1..Len(ValidPages) |->
                 extract_page_entries(doc[ValidPages[k]], ValidPages[k])])

\* a batch of two pages processed in descending order, in which a target of
\* an Entry is not the one its own page alone would give
C16_Witness ==
  /\ pc = "done"
  /\ pages = <<2, 1>>
  /\ \E i \in 1..Len(entries), j \in 1..Len(entries) :
       /\ entries[i].page # entries[j].page
       /\ entries[i].crossRefTargets # OwnPageTargets(entries[i])

\* ------------------------------------------------------------------------
\* Order of the stored and served references
\* ------------------------------------------------------------------------
\* the mentions of the JSON records as (type, token) pairs, record by record,
\* a record's crossRefs before its seeAlso
Mentions(records) ==
  Flatten([k \in 1..Len(records) |->
    [i \in 1..Len(records[k].crossRefs) |-> <<"see", records[k].crossRefs[i]>>]
      \o [i \in 1..Len(records[k].seeAlso) |-> <<"seealso", records[k].seeAlso[i]>>]])

\* the tokens of the stored refs of a source and type, in insertion order
StoredTokens(eid, type) ==
  LET own == SelectSeq(db.refs, LAMBDA r : r.source_id = eid /\ r.type = type)
  IN  [i \in 1..Len(own) |-> own[i].target_word]

\* the words of the entries that refer to an entry, in the insertion order
\* of the referring refs
ReferrersInInsertionOrder(eid, word) ==
  LET incoming == SelectSeq(db.refs, LAMBDA r :
                    r.target_id = Some(eid) \/ r.target_word = word)
  IN  [i \in 1..Len(incoming) |->
         (CHOOSE k \in 1..Len(db.entries) :
            db.entries[k].id = incoming[i].source_id)]

\* the same list as words
ReferrerWords(eid, word) ==
  [i \in 1..Len(ReferrersInInsertionOrder(eid, word)) |->
     db.entries[ReferrersInInsertionOrder(eid, word)[i]].word]

\* a holds the elements of b, each as many times
SameElements(a, b) ==
  /\ Len(a) = Len(b)
  /\ \A i \in 1..Len(a) :
       Cardinality({j \in 1..Len(a) : a[j] = a[i]})
         = Cardinality({j \in 1..Len(b) : b[j] = a[i]})

\* the refs are stored in the order of the mentions, with ascending ids
StoredInMentionOrder ==
  pc \in {"migrated", "served"} =>
    /\ \A i \in 1..(Len(db.refs) - 1) : db.refs[i].id < db.refs[i + 1].id
    /\ [i \in 1..Len(db.refs) |-> <<db.refs[i].type, db.refs[i].target_word>>]
         = Mentions(json_file[1].entries)

\* /entry returns the outgoing refs of the entry in insertion order
ServedInInsertionOrder ==
  (pc = "served" /\ response[1].status = 200) =>
    LET e == response[1].entry
    IN  /\ e.crossRefs = StoredTokens(e.id, "see")
        /\ e.seeAlso = StoredTokens(e.id, "seealso")

\* C17 as stated: the refs of a source Entry are stored and returned in
\* insertion order (the order of the mentions), and the 'referred by' list is
\* returned in the insertion order of the referring refs.
C17_RefsInInsertionOrder ==
  /\ StoredInMentionOrder
  /\ ServedInInsertionOrder
  /\ (pc = "served" /\ response[1].status = 200) =>
       response[1].entry.referredBy
         = ReferrerWords(response[1].entry.id, response[1].entry.word)

\* C17 amended: the refs of a source Entry are stored and returned in
\* insertion order (the order of the mentions); the 'referred by' list holds
\* the word of the source of every referring ref, in ascending order of
\* these words.
C17_RefsOrder ==
  /\ StoredInMentionOrder
  /\ ServedInInsertionOrder
  /\ (pc = "served" /\ response[1].status = 200) =>
       LET e == response[1].entry
       IN  /\ SameElements(e.referredBy, ReferrerWords(e.id, e.word))
           /\ \A i \in 1..(Len(e.referredBy) - 1) :
                ~StrLess(e.referredBy[i + 1], e.referredBy[i])

\* a response with an outgoing ref and with two referring entries whose
\* words are not in the order in which their refs were inserted
C17_Witness ==
  /\ pc = "served"
  /\ response[1].status = 200
  /\ response[1].entry.crossRefs \o response[1].entry.seeAlso # <<>>
  /\ Len(response[1].entry.referredBy) >= 2
  /\ response[1].entry.referredBy
       # ReferrerWords(response[1].entry.id, response[1].entry.word)

\* ------------------------------------------------------------------------
\* The records of the JSON output
\* ------------------------------------------------------------------------
\* C18 as stated: entries_to_simple emits one record per Entry, in the order
\* of the Entry list; a record's definition is the Entry's sense texts joined
\* by single spaces and its other fields equal the Entry's fields.
C18_SimpleRecords ==
  pc = "written" =>
    LET out == json_file[1].entries
    IN  /\ Len(out) = Len(entries)
        /\ \A i \in 1..Len(out) :
             /\ out[i].word = entries[i].word
             /\ out[i].pos = entries[i].pos
             /\ out[i].definition = JoinWithSpace(entries[i].senses)
             /\ out[i].crossRefs = entries[i].crossRefs
             /\ out[i].seeAlso = entries[i].seeAlso
             /\ out[i].crossRefTargets = entries[i].crossRefTargets
             /\ out[i].seeAlsoTargets = entries[i].seeAlsoTargets
             /\ out[i].page = entries[i].page
             /\ out[i].column = entries[i].column

\* t is s without its leading and trailing whitespace
IsStripped(t, s) ==
  /\ t = <<>> \/ (t[1] \notin Whitespace /\ t[Len(t)] \notin Whitespace)
  /\ \E a \in 0..(Len(s) - Len(t)) :
       /\ SubSeq(s, a + 1, a + Len(t)) = t
       /\ \A i \in 1..Len(s) :
            (i <= a \/ i > a + Len(t)) => s[i] \in Whitespace

\* C18 amended: entries_to_simple emits one record per Entry, in the order of
\* the Entry list; a record's definition is the Entry's sense texts joined by
\* single spaces with the leading and trailing whitespace of the joined text
\* removed, and its other fields equal the Entry's fields.
C18_SimpleRecordsStripped ==
  pc = "written" =>
    LET out == json_file[1].entries
    IN  /\ Len(out) = Len(entries)
        /\ json_file[1].count = Len(entries)
        /\ \A i \in 1..Len(out) :
             /\ out[i].word = entries[i].word
             /\ out[i].pos = entries[i].pos
             /\ IsStripped(out[i].definition, JoinWithSpace(entries[i].senses))
             /\ out[i].crossRefs = entries[i].crossRefs
             /\ out[i].seeAlso = entries[i].seeAlso
             /\ out[i].crossRefTargets = entries[i].crossRefTargets
             /\ out[i].seeAlsoTargets = entries[i].seeAlsoTargets
             /\ out[i].page = entries[i].page
             /\ out[i].column = entries[i].column

\* a written document of two records, one of an Entry whose first sense is
\* empty and is followed by another sense
C18_Witness ==
  /\ pc = "written"
  /\ Len(json_file[1].entries) >= 2
  /\ \E i \in 1..Len(entries) :
       /\ Len(entries[i].senses) >= 2
       /\ entries[i].senses[1] = <<>>
       /\ json_file[1].entries[i].definition # <<>>
       /\ json_file[1].entries[i].definition # JoinWithSpace(entries[i].senses)

\* ------------------------------------------------------------------------
\* Normalised text
\* ------------------------------------------------------------------------
\* the raw strings of the document: the text of every span and of every line
RawTexts ==
  UNION {UNION {{JoinSpans(doc[p].lines[l].spans)}
                  \cup {doc[p].lines[l].spans[k].text :
                          k \in 1..Len(doc[p].lines[l].spans)} :
                l \in 1..Len(doc[p].lines)} :
         p \in 1..Len(doc)}

\* no apostrophe variant, no two whitespace characters in a row, no
\* whitespace at either end
IsNormalForm(t) ==
  /\ \A i \in 1..Len(t) : t[i] \notin APOSTROPHE_MAP
  /\ \A i \in 1..(Len(t) - 1) :
       ~(t[i] \in Whitespace /\ t[i + 1] \in Whitespace)
  /\ t # <<>> => (t[1] \notin Whitespace /\ t[Len(t)] \notin Whitespace)

\* the raw text of the line the classifier is about to read
CurrentRaw ==
  IF pc = "line" /\ line_idx <= Len(columns[col_idx + 1])
  THEN {JoinSpans(columns[col_idx + 1][line_idx].spans)}
  ELSE {}

\* C19: normalize_text is idempotent, and its result holds no apostrophe
\* variant, no run of two or more whitespace characters and no leading or
\* trailing whitespace.
C19_NormalizeIdempotent ==
  /\ \A s \in CurrentRaw :
       /\ normalize_text(normalize_text(s)) = normalize_text(s)
       /\ IsNormalForm(normalize_text(s))
  /\ pc = "done" =>
       \A i \in 1..Len(entries) :
         /\ IsNormalForm(entries[i].word)
         /\ normalize_text(entries[i].word) = entries[i].word

\* a line with an apostrophe variant, a whitespace run and whitespace at an
\* end has been read and has given an Entry whose word holds the ASCII
\* apostrophe
C19_Witness ==
  /\ pc = "done"
  /\ \E s \in RawTexts :
       /\ \E i \in 1..Len(s) : s[i] \in APOSTROPHE_MAP
       /\ \E i \in 1..(Len(s) - 1) : s[i] \in Whitespace /\ s[i + 1] \in Whitespace
       /\ s[Len(s)] \in Whitespace
       /\ normalize_text(s) # s
  /\ \E i \in 1..Len(entries) :
       \E k \in 1..Len(entries[i].word) : entries[i].word[k] = "'"

\* ------------------------------------------------------------------------
\* Segmentation without a drawn divider
\* ------------------------------------------------------------------------
\* the page as a geometry provider without drawing primitives gives it
WithoutDrawings(page) == [page EXCEPT !.drawings = None]

\* every retained line of the page is in exactly one column
LinesPartitioned(lines_data) ==
  /\ \A i \in 1..Len(lines_data) :
       \E c \in 1..Len(columns) :
         \E k \in 1..Len(columns[c]) : columns[c][k] = lines_data[i]
  /\ \A c \in 1..Len(columns) :
       \A k \in 1..Len(columns[c]) : ColumnOf(columns[c][k], col_bands) = c

\* C20: when the page gives no drawing primitives, or reading them fails, or
\* no segment qualifies as a divider, the segmentation falls back silently:
\* the divider is the estimate from the line left edges (none for a page
\* without lines), the bands and columns are those of the same page without
\* drawings, every line is assigned to a column and every column is walked.
C20_SilentFallback ==
  (pc \in {"column", "line", "post"} /\ DrawnDivider(CurrentPage) = None) =>
    LET lines_data == LinesData(CurrentPage)
        bare == WithoutDrawings(CurrentPage)
    IN  /\ divider_x = IF lines_data = <<>> THEN None
                       ELSE Some(EstimatedDivider(lines_data))
        /\ col_bands # <<>>
        /\ col_bands = ColBands(bare, detect_divider_x(bare, lines_data),
                                Words(lines_data))
        /\ Len(columns) = Len(col_bands)
        /\ LinesPartitioned(lines_data)
        /\ pc = "post" => col_idx = Len(columns)

\* a page whose drawings hold segments, none of which qualifies, has been
\* segmented and classified and has given an Entry
C20_Witness ==
  /\ pc = "post"
  /\ CurrentPage.drawings \notin {None, Some(<<>>)}
  /\ DrawnDivider(CurrentPage) = None
  /\ page_entries # <<>>

\* ------------------------------------------------------------------------
\* Part-of-speech tokens
\* ------------------------------------------------------------------------
\* the page ends with the baseline-aligned line "ab <t> cd"
EndsWithTokenLine(t) ==
  /\ Len(doc) = 1
  /\ pages = <<1>>
  /\ doc[1].lines # <<>>
  /\ doc[1].lines[Len(doc[1].lines)] = Ln(TokenLine(t), 50, 80 + 20 * Len(doc[1].lines))

\* C21: for every token t of POS_TOKENS, a baseline-aligned line
\* "<headword> t <definition text>" starts a new Entry whose pos is t.
C21_EveryPosTokenStartsEntry ==
  \A t \in POS_TOKENS :
    (pc = "done" /\ EndsWithTokenLine(t)) =>
      /\ entries # <<>>
      /\ entries[Len(entries)].word = <<"a","b">>
      /\ entries[Len(entries)].pos = t
      /\ entries[Len(entries)].senses = << <<"c","d">> >>

\* ------------------------------------------------------------------------
\* The POS of a started Entry
\* ------------------------------------------------------------------------
\* the lines of the Entry's page on which the Entry started (same bbox)
StartingLines(e) ==
  {l \in 1..Len(doc[e.page].lines) : doc[e.page].lines[l].bbox = e.bbox}

\* pos is a POS token matched in text: POS_PATTERN matches exactly pos at
\* the place where it stands
PosMatchedIn(pos, text) ==
  /\ pos # <<>>
  /\ \E k \in 1..Len(text) :
       /\ SubSeq(text, k, k + Len(pos) - 1) = pos
       /\ POS_PATTERN(Drop(text, k - 1)) = Len(pos)

\* C22: every Entry the classifier started stores the POS token matched on
\* its starting line, whether it was started as a new headword, by promotion
\* or by an inline headword break.
C22_PosStored ==
  pc = "done" =>
    \A i \in 1..Len(entries) :
      \E l \in StartingLines(entries[i]) :
        PosMatchedIn(entries[i].pos, LineText(doc[entries[i].page].lines[l]))

\* ------------------------------------------------------------------------
\* Inline headword breaks
\* ------------------------------------------------------------------------
\* the classifier is about to read a line
AtLine == pc = "line" /\ line_idx <= Len(columns[col_idx + 1])

TheLine == columns[col_idx + 1][line_idx]

TheText == LineText(TheLine)

\* an Entry is open and the line, which starts no Entry as a headword line,
\* holds a headword break
BreakLineMet ==
  /\ AtLine
  /\ current # None
  /\ TheText # <<>>
  /\ ~(PosInLine(TheText) /\ IsHeadAligned(TheLine.bbox[1], head_left))
  /\ find_inline_headword_break(TheText).idx # -1

\* the step splits the line: the text before the break goes to the last Sense
\* of the open Entry (or becomes its first Sense), the open Entry is emitted
\* and a new Entry starts at the break
SplitsLine ==
  LET brk == find_inline_headword_break(TheText)
      left == rstrip(Take(TheText, brk.idx))
      old == current[1]
      closed == page_entries'[Len(page_entries')]
      n == Len(old.senses)
  IN  /\ Len(page_entries') = Len(page_entries) + 1
      /\ SubSeq(page_entries', 1, Len(page_entries)) = page_entries
      /\ closed.word = old.word
      /\ closed.bbox = old.bbox
      /\ IF left = <<>> THEN closed.senses = old.senses
         ELSE IF n = 0 THEN closed.senses = <<left>>
         ELSE /\ Len(closed.senses) = n
              /\ SubSeq(closed.senses, 1, n - 1) = SubSeq(old.senses, 1, n - 1)
              /\ closed.senses[n] = normalize_text(old.senses[n] \o <<" ">> \o left)
      /\ current' # None
      /\ current'[1].word = brk.hw
      /\ current'[1].bbox = TheLine.bbox

\* the step appends the whole line to the open Entry as a continuation
AppendsWholeLine ==
  LET old == current[1]
      n == Len(old.senses)
  IN  /\ page_entries' = page_entries
      /\ current' # None
      /\ current'[1].word = old.word
      /\ current'[1].bbox = old.bbox
      /\ IF n = 0 THEN current'[1].senses = <<TheText>>
         ELSE /\ Len(current'[1].senses) = n
              /\ SubSeq(current'[1].senses, 1, n - 1) = SubSeq(old.senses, 1, n - 1)
              /\ current'[1].senses[n]
                   = normalize_text(old.senses[n] \o <<" ">> \o TheText)

\* C23 as stated: while an Entry is open, a line that holds an embedded
\* headword break is always split, whatever its left edge.
C23_AlwaysSplit ==
  [][BreakLineMet => SplitsLine]_vars

\* C23 amended: while an Entry is open, a line that holds an embedded headword
\* break and is neither promoted to a headword line nor a numbered sense is
\* split when its left edge is within 12 units of the column baseline; at any
\* other left edge it is not split and its whole text is appended to the
\* current Entry as a plain continuation.
C23_SplitNearBaseline ==
  [][(/\ BreakLineMet
      /\ ~PromoteToHead(TheText, TheLine.bbox[1], head_left)
      /\ ~StartsWithNumberDot(TheText))
     => IF head_left = None \/ Abs(TheLine.bbox[1] - head_left[1]) <= 12
        THEN SplitsLine
        ELSE AppendsWholeLine]_vars

\* a break line near the baseline has been split and a break line at the
\* indent has then been appended whole to the Entry that the split started
C23_Witness ==
  /\ pc = "line"
  /\ line_idx = 4
  /\ head_left = Some(50)
  /\ columns[col_idx + 1][2].bbox[1] = 62
  /\ columns[col_idx + 1][3].bbox[1] = 70
  /\ find_inline_headword_break(LineText(columns[col_idx + 1][2])).idx > 0
  /\ find_inline_headword_break(LineText(columns[col_idx + 1][3])).idx > 0
  /\ Len(page_entries) = 1
  /\ current # None
  /\ current[1].bbox = columns[col_idx + 1][2].bbox
  /\ Len(current[1].senses) = 1
  /\ Len(current[1].senses[1]) > Len(LineText(columns[col_idx + 1][3]))

\* ------------------------------------------------------------------------
\* Promotion
\* ------------------------------------------------------------------------
\* the line the classifier is about to read starts more than 8 and at most 10
\* units from the baseline and holds a POS token after its first word and
\* the alias parentheticals
PromotionLineMet ==
  /\ AtLine
  /\ head_left # None
  /\ Abs(TheLine.bbox[1] - head_left[1]) > 8
  /\ Abs(TheLine.bbox[1] - head_left[1]) <= 10
  /\ PosInLine(TheText)

\* C24: while an Entry is open such a line finalizes the current Entry and
\* starts a new one; met while no Entry is open it starts nothing and is
\* discarded.
C24_Promotion ==
  [][PromotionLineMet =>
       IF current # None
       THEN /\ page_entries' = Append(page_entries, current[1])
            /\ current' # None
            /\ current'[1].bbox = TheLine.bbox
            /\ current'[1].word = HEADLINE_PATTERN(TheText).word
            /\ current'[1].page = pages[p_idx]
            /\ current'[1].column = col_idx
       ELSE /\ page_entries' = page_entries
            /\ current' = None]_vars

\* a line 10 units right of the baseline has closed the open Entry and
\* started another
C24_Witness ==
  /\ pc = "line"
  /\ line_idx = 4
  /\ head_left = Some(50)
  /\ columns[col_idx + 1][3].bbox[1] = 60
  /\ Len(page_entries) = 2
  /\ current # None
  /\ current[1].bbox = columns[col_idx + 1][3].bbox
  /\ current[1].word = <<"b">>

\* a line 10 units right of the baseline, met with no Entry open, has been
\* discarded
C24_WitnessDiscarded ==
  /\ pc = "line"
  /\ line_idx = 2
  /\ head_left = Some(50)
  /\ columns[col_idx + 1][1].bbox[1] = 60
  /\ PosInLine(LineText(columns[col_idx + 1][1]))
  /\ page_entries = <<>>
  /\ current = None

\* ------------------------------------------------------------------------
\* Numbered senses
\* ------------------------------------------------------------------------
\* the text starts with one or more digits and a period
DigitsThenPeriod(t) ==
  \E d \in 1..(Len(t) - 1) :
    /\ \A i \in 1..d : t[i] \in Digits
    /\ t[d + 1] = "."

\* C25: while an Entry is open, a line that is not a headword line and whose
\* text starts with digits and a period appends exactly one new Sense holding
\* the line's text to the current Entry; the existing Senses and the other
\* fields of the Entry are unchanged and no Entry is finalized.
C25_NumberedSense ==
  [][(/\ AtLine
      /\ current # None
      /\ DigitsThenPeriod(TheText)
      /\ ~(PosInLine(TheText) /\ IsHeadAligned(TheLine.bbox[1], head_left))
      /\ ~PromoteToHead(TheText, TheLine.bbox[1], head_left))
     => /\ current' # None
        /\ current'[1].senses = Append(current[1].senses, TheText)
        /\ current'[1] = [current[1] EXCEPT !.senses = current'[1].senses]
        /\ page_entries' = page_entries
        /\ entries' = entries]_vars

\* an open Entry with a first sense has received a second and a third sense
\* from two numbered lines, the last one numbered with two digits
C25_Witness ==
  /\ pc = "line"
  /\ line_idx = 4
  /\ current # None
  /\ Len(current[1].senses) = 3
  /\ current[1].senses[1] = <<"c","d">>
  /\ current[1].senses[2] = T_num
  /\ current[1].senses[3] = T_num12
  /\ page_entries = <<>>

\* ------------------------------------------------------------------------
\* Lines met while no Entry is open
\* ------------------------------------------------------------------------
\* the line starts a new Entry: it lies within 8 units of the baseline (or
\* the column has no baseline) and holds a POS token after its first word
StartsEntry ==
  /\ TheText # <<>>
  /\ PosInLine(TheText)
  /\ head_left = None \/ Abs(TheLine.bbox[1] - head_left[1]) <= 8

\* C26: with no Entry open in the column, a line that does not start a new
\* Entry is discarded: the output lists and every emitted Entry are
\* unchanged and still no Entry is open, so the text is in no Entry.
C26_NoiseDiscarded ==
  [][(AtLine /\ current = None /\ ~StartsEntry)
     => /\ current' = None
        /\ page_entries' = page_entries
        /\ entries' = entries]_vars

\* two lines with text have been met with no Entry open and have left
\* nothing behind
C26_Witness ==
  /\ pc = "line"
  /\ line_idx = 3
  /\ LineText(columns[col_idx + 1][1]) # <<>>
  /\ LineText(columns[col_idx + 1][2]) # <<>>
  /\ PosInLine(LineText(columns[col_idx + 1][1]))
  /\ ~PosInLine(LineText(columns[col_idx + 1][2]))
  /\ current = None
  /\ page_entries = <<>>

\* ------------------------------------------------------------------------
\* Emission of the entries
\* ------------------------------------------------------------------------
\* the starting lines (bounding boxes) of the entries of a list
StartBoxes(es) == {es[i].bbox : i \in 1..Len(es)}

\* no two entries of the list started on the same line
OnePerStart(es) ==
  \A i \in 1..Len(es), j \in 1..Len(es) : es[i].bbox = es[j].bbox => i = j

\* the page's output holds no Entry twice and does not hold the open Entry
EmittedOnce ==
  pc \in {"column", "line", "post"} =>
    /\ OnePerStart(page_entries)
    /\ pc = "line" /\ current # None => current[1].bbox \notin StartBoxes(page_entries)

\* a step of the classifier pushes the open Entry when, and only when, a new
\* Entry starts; the step at the end of the column pushes the open Entry
EmittedWhenClosed ==
  /\ AtLine =>
       LET started == /\ current' # None
                      /\ current = None \/ current'[1].bbox # current[1].bbox
       IN  IF started /\ current # None
           THEN /\ Len(page_entries') = Len(page_entries) + 1
                /\ SubSeq(page_entries', 1, Len(page_entries)) = page_entries
                /\ page_entries'[Len(page_entries')].bbox = current[1].bbox
                /\ page_entries'[Len(page_entries')].word = current[1].word
           ELSE page_entries' = page_entries
  /\ (pc = "line" /\ ~AtLine) =>
       page_entries' = IF current # None THEN Append(page_entries, current[1])
                       ELSE page_entries
  /\ pc = "column" => page_entries' = page_entries /\ current' = None
  /\ pc = "post" => Len(entries') = Len(entries) + Len(page_entries)

\* C27: every Entry the classifier creates is pushed to the page's output
\* list exactly once, when the next Entry starts or, at the latest, when the
\* lines of its column are exhausted; no Entry is in the output twice.
C27_EmittedExactlyOnce ==
  []EmittedOnce /\ [][EmittedWhenClosed]_vars

\* a page has given three entries: one closed by a new headword line, one by
\* an inline headword break and one by the end of the column
C27_Witness ==
  /\ pc = "post"
  /\ Len(page_entries) = 3
  /\ OnePerStart(page_entries)
  /\ page_entries[1].pos # <<>>
  /\ page_entries[2].pos # <<>>
  /\ page_entries[3].pos = <<>>
  /\ current # None
  /\ current[1] = page_entries[3]

\* ------------------------------------------------------------------------
\* Finalized entries
\* ------------------------------------------------------------------------
\* the step changes the open Entry in place (same Entry, other content)
MutatesOpenEntry ==
  /\ current # None
  /\ current' # None
  /\ current'[1].bbox = current[1].bbox
  /\ current'[1] # current[1]

\* C28: once an Entry has been pushed to the output list no line
\* classification changes it: every step of the classifier leaves the
\* entries already in the output as they are, and the Entry it changes in
\* place is the open one, which is not in the output.
C28_FinalizedFrozen ==
  [][pc = "line" =>
       /\ Len(page_entries') >= Len(page_entries)
       /\ SubSeq(page_entries', 1, Len(page_entries)) = page_entries
       /\ entries' = entries
       /\ MutatesOpenEntry =>
            /\ current[1].bbox \notin StartBoxes(page_entries')
            /\ page_entries' = page_entries]_vars

\* a continuation line has been appended to the open Entry after another
\* Entry had been finalized, and the finalized Entry is as it was pushed
C28_Witness ==
  /\ pc = "line"
  /\ line_idx = 4
  /\ LineText(columns[col_idx + 1][3]) = T_cont
  /\ Len(page_entries) = 1
  /\ page_entries[1].senses = << <<"c","d">> >>
  /\ page_entries[1].bbox = columns[col_idx + 1][1].bbox
  /\ current # None
  /\ current[1].bbox = columns[col_idx + 1][2].bbox
  /\ current[1].senses = << <<"c","d"," ","c","d"," ","e","f">> >>

\* ------------------------------------------------------------------------
\* The bands of detect_columns
\* ------------------------------------------------------------------------
\* C29: detect_columns returns at most three bands for every non-empty
\* input.
C29_AtMostThreeBands ==
  (pc = "detected" /\ det_words # <<>>) => Len(det_bands[1]) <= 3

\* ------------------------------------------------------------------------
\* Assignment of the lines to the columns
\* ------------------------------------------------------------------------
\* the horizontal centre of a line
Centre(ld) == <<ld.bbox[1] + ld.bbox[3], 2>>

\* band c contains the centre of the line
CentreIn(ld, c) ==
  RLe(col_bands[c][1], Centre(ld)) /\ RLe(Centre(ld), col_bands[c][2])

\* the distance from the centre of the line to the nearer edge of band c
EdgeDistance(ld, c) ==
  RMin(RAbs(RSub(Centre(ld), col_bands[c][1])),
       RAbs(RSub(Centre(ld), col_bands[c][2])))

\* c is the band the line belongs to
RightBand(ld, c) ==
  IF \E j \in 1..Len(col_bands) : CentreIn(ld, j)
  THEN CentreIn(ld, c) /\ \A j \in 1..(c - 1) : ~CentreIn(ld, j)
  ELSE \A j \in 1..Len(col_bands) : RLe(EdgeDistance(ld, c), EdgeDistance(ld, j))

\* the number of places in the columns that hold the line
Copies(ld) ==
  Cardinality({ck \in (1..Len(columns)) \X (1..Len(LinesData(CurrentPage))) :
                 /\ ck[2] <= Len(columns[ck[1]])
                 /\ columns[ck[1]][ck[2]] = ld})

\* C30: every line retained after margin filtering is in exactly one column,
\* the first band that contains its horizontal centre or, when none does, a
\* band whose edge is nearest to the centre; the columns hold each retained
\* line once and no other line.
C30_OneColumnPerLine ==
  pc \in {"column", "line", "post"} =>
    LET lines_data == LinesData(CurrentPage)
    IN  /\ Len(columns) = Len(col_bands)
        /\ \A i \in 1..Len(lines_data) :
             Copies(lines_data[i])
               = Cardinality({j \in 1..Len(lines_data) : lines_data[j] = lines_data[i]})
        /\ \A c \in 1..Len(columns) :
             \A k \in 1..Len(columns[c]) :
               /\ \E i \in 1..Len(lines_data) : lines_data[i] = columns[c][k]
               /\ RightBand(columns[c][k], c)

\* a page with a drawn divider has lines in both columns, one of them with
\* its centre in no band
C30_Witness ==
  /\ pc = "post"
  /\ DrawnDivider(CurrentPage) # None
  /\ Len(columns) = 2
  /\ columns[1] # <<>>
  /\ \E k \in 1..Len(columns[2]) :
       \A c \in 1..2 : ~CentreIn(columns[2][k], c)

\* the positions in the batch of the Entries whose normalized word is the
\* normalized token
ExactMatches(token) ==
  {j \in 1..Len(entries) :
     normalize_text(entries[j].word) = normalize_text(token)}

\* the positions of the Entries whose normalized word without superscripts
\* is the normalized token without superscripts
BaseMatches(token) ==
  {j \in 1..Len(entries) :
     SelectSeq(normalize_text(entries[j].word), LAMBDA c : c \notin Superscripts)
       = SelectSeq(normalize_text(token), LAMBDA c : c \notin Superscripts)}

\* the target of a mention with exactly one exact match is that Entry's word
ExactWins(tokens, targets) ==
  /\ Len(targets) = Len(tokens)
  /\ \A k \in 1..Len(tokens) :
       Cardinality(ExactMatches(tokens[k])) = 1 =>
         \A j \in ExactMatches(tokens[k]) : targets[k] = entries[j].word

\* the target of a mention with no or several exact matches and a match in
\* the superscript-stripped index is the word of one of those matches
BaseOtherwise(tokens, targets) ==
  /\ Len(targets) = Len(tokens)
  /\ \A k \in 1..Len(tokens) :
       (Cardinality(ExactMatches(tokens[k])) # 1 /\ BaseMatches(tokens[k]) # {}) =>
         \E j \in BaseMatches(tokens[k]) : targets[k] = entries[j].word

\* C31: a mention whose normalized token is the normalized word of exactly
\* one Entry of the batch resolves to that Entry's word; the
\* superscript-stripped index decides the target only when the exact index
\* holds no Entry or several.
C31_ExactIndexFirst ==
  pc = "done" =>
    \A i \in 1..Len(entries) :
      /\ ExactWins(entries[i].crossRefs, entries[i].crossRefTargets)
      /\ ExactWins(entries[i].seeAlso, entries[i].seeAlsoTargets)
      /\ BaseOtherwise(entries[i].crossRefs, entries[i].crossRefTargets)
      /\ BaseOtherwise(entries[i].seeAlso, entries[i].seeAlsoTargets)

\* a mention with one exact match that is not the first Entry of its
\* superscript-stripped group, and a mention resolved through that group
C31_Witness ==
  /\ pc = "done"
  /\ \E i \in 1..Len(entries) : \E k \in 1..Len(entries[i].crossRefs) :
       LET t == entries[i].crossRefs[k]
       IN  /\ Cardinality(ExactMatches(t)) = 1
           /\ \E j \in BaseMatches(t) : \E m \in ExactMatches(t) : j < m
           /\ k <= Len(entries[i].crossRefTargets)
           /\ \A m \in ExactMatches(t) :
                entries[i].crossRefTargets[k] = entries[m].word
  /\ \E i \in 1..Len(entries) : \E k \in 1..Len(entries[i].crossRefs) :
       /\ ExactMatches(entries[i].crossRefs[k]) = {}
       /\ BaseMatches(entries[i].crossRefs[k]) # {}

\* Entry a starts before Entry b in page order: on an earlier page, or on the
\* same page in an earlier column, or in the same column on a higher line
StartsBefore(a, b) ==
  \/ a.page < b.page
  \/ a.page = b.page /\ a.column < b.column
  \/ a.page = b.page /\ a.column = b.column /\ a.bbox[2] < b.bbox[2]

\* the matches of the token in the superscript-stripped index that no other
\* match precedes in page order
EarliestBaseMatches(token) ==
  {j \in BaseMatches(token) :
     \A m \in BaseMatches(token) : ~StartsBefore(entries[m], entries[j])}

\* the target of a mention resolved through a superscript-stripped group of
\* several Entries is the word of the earliest of them in page order
EarliestWins(tokens, targets) ==
  \A k \in 1..Len(tokens) :
    (Cardinality(ExactMatches(tokens[k])) # 1
       /\ Cardinality(BaseMatches(tokens[k])) >= 2) =>
      /\ k <= Len(targets)
      /\ \E j \in EarliestBaseMatches(tokens[k]) : targets[k] = entries[j].word

\* C32: a mention resolved through the superscript-stripped index with
\* several matching Entries gets the word of the match on the earliest page,
\* then in the earliest column, then on the earliest line, whatever the order
\* of the page list given to parse_pages.
C32_EarliestPageWins ==
  pc = "done" =>
    \A i \in 1..Len(entries) :
      /\ EarliestWins(entries[i].crossRefs, entries[i].crossRefTargets)
      /\ EarliestWins(entries[i].seeAlso, entries[i].seeAlsoTargets)

\* the fields that post-processing writes
SameContent(a, b) ==
  /\ a.word = b.word
  /\ a.pos = b.pos
  /\ a.senses = b.senses
  /\ a.crossRefs = b.crossRefs
  /\ a.seeAlso = b.seeAlso

\* the orders in which n entries can be visited
Orders(n) ==
  {o \in [1..n -> 1..n] : \A i \in 1..n, j \in 1..n : i # j => o[i] # o[j]}

\* C33: post-processing an Entry that is already post-processed leaves its
\* word, pos, Sense texts, crossRefs and seeAlso as they are, and the entries
\* a page returns are the same in whatever order the loop visits them.
C33_PostProcessIdempotent ==
  [][pc = "post" =>
       LET n == Len(entries)
           out == [i \in 1..Len(page_entries) |-> entries'[n + i]]
       IN  /\ Len(entries') = n + Len(page_entries)
           /\ \A i \in 1..Len(out) :
                SameContent(PostProcessEntry(out[i]), out[i])
           /\ \A o \in Orders(Len(page_entries)) :
                PostProcessIn(page_entries, o) = out]_vars

\* two post-processed entries, one with two wrap hyphens joined in a Sense
\* and a mention whose token had a wrap hyphen
C33_Witness ==
  /\ pc = "done"
  /\ Len(entries) >= 2
  /\ \E i \in 1..Len(entries) :
       /\ \E k \in 1..Len(entries[i].senses) :
            Contains(entries[i].senses[k], <<"c","-","d","-","e">>)
       /\ \E k \in 1..Len(entries[i].crossRefs) :
            entries[i].crossRefs[k] = <<"b","-","o">>

\* ------------------------------------------------------------------------
\* The baseline estimate of a column
\* ------------------------------------------------------------------------
\* the column whose lines are being classified
TheColumn == columns[col_idx + 1]

\* the positions of its headline-shaped lines
HeadlinePositions ==
  {i \in 1..Len(TheColumn) : IsHeadlineShaped(TheColumn[i])}

\* x is the element at index r (from 0) of the sorted left edges of the
\* headline-shaped lines
AtRank(x, r) ==
  /\ \E i \in HeadlinePositions : TheColumn[i].bbox[1] = x
  /\ Cardinality({i \in HeadlinePositions : TheColumn[i].bbox[1] < x}) <= r
  /\ Cardinality({i \in HeadlinePositions : TheColumn[i].bbox[1] <= x}) > r

\* the index, in the sorted left edges, of the median of what is left after
\* floor(15%) of them is removed from each end
MedianRank ==
  LET n == Cardinality(HeadlinePositions)
      k == (15 * n) \div 100
  IN  k + ((n - 2 * k) \div 2)

\* C34: in a column with a headline-shaped line the baseline is the element
\* at index len//2 of the sorted left edges of the headline-shaped lines
\* after floor(15%) of them is removed from each end; it is the left edge of
\* one of those lines, whatever the other lines of the column are.
C34_BaselineFromHeadlines ==
  (pc = "line" /\ HeadlinePositions # {}) =>
    /\ head_left # None
    /\ AtRank(head_left[1], MedianRank)

\* a column of seven or more headline-shaped lines (one is removed from each
\* end) whose baseline is the larger of two left edges
C34_Witness ==
  /\ pc = "line"
  /\ Cardinality(HeadlinePositions) >= 7
  /\ head_left # None
  /\ \E i \in HeadlinePositions : TheColumn[i].bbox[1] < head_left[1]
  /\ AtRank(head_left[1], MedianRank)

\* ------------------------------------------------------------------------
\* The source of the stored refs
\* ------------------------------------------------------------------------
\* for every mention of the JSON records, in order, the position of the
\* record that holds it
MentionOwners(records) ==
  Flatten([k \in 1..Len(records) |->
    [i \in 1..(Len(records[k].crossRefs) + Len(records[k].seeAlso)) |-> k]])

\* C35: after migrate every refs row has as source_id the id of the entries
\* row made from the record whose crossRefs or seeAlso produced it, also
\* when several records of the document have the same word.
C35_RefsOwnedByTheirRecord ==
  pc \in {"migrated", "served"} =>
    LET owners == MentionOwners(json_file[1].entries)
    IN  /\ Len(db.refs) = Len(owners)
        /\ Len(db.entries) = Len(json_file[1].entries)
        /\ \A i \in 1..Len(db.refs) :
             db.refs[i].source_id = db.entries[owners[i]].id

\* ------------------------------------------------------------------------
\* The tables after migrate
\* ------------------------------------------------------------------------
\* the entries table holds the records of the document, one row each, in
\* record order
RowsAreTheRecords(records) ==
  /\ Len(db.entries) = Len(records)
  /\ \A i \in 1..Len(records) :
       /\ db.entries[i].word = records[i].word
       /\ db.entries[i].pos = records[i].pos
       /\ db.entries[i].definition = records[i].definition
       /\ db.entries[i].page = records[i].page
       /\ db.entries[i].column = records[i].column
  /\ \A i \in 1..Len(db.entries), j \in 1..Len(db.entries) :
       i # j => db.entries[i].id # db.entries[j].id

\* the refs table holds the mentions of the document's records and nothing
\* else, and its rows point at rows of the entries table
RefsAreTheMentions(records) ==
  /\ [i \in 1..Len(db.refs) |-> <<db.refs[i].type, db.refs[i].target_word>>]
       = Mentions(records)
  /\ \A i \in 1..Len(db.refs) :
       /\ \E k \in 1..Len(db.entries) : db.entries[k].id = db.refs[i].source_id
       /\ db.refs[i].target_id # None =>
            \E k \in 1..Len(db.entries) : db.entries[k].id = db.refs[i].target_id[1]

\* C36: after migrate the entries table holds exactly one row per record of
\* the JSON document and the refs table only rows made from that document,
\* whatever the database held before and however often migrate ran before.
C36_MigrateReplaces ==
  pc \in {"migrated", "served"} =>
    /\ RowsAreTheRecords(json_file[1].entries)
    /\ RefsAreTheMentions(json_file[1].entries)

\* a second migrate over rows and refs left by the first
C36_Witness ==
  /\ pc = "migrated"
  /\ migrations = 2
  /\ Len(db.entries) >= 2
  /\ db.refs # <<>>
  /\ db.seq_entries = 2 * Len(db.entries)

\* the text of an argument read as an integer: None where the argument
\* is absent or is not an integer
GivenInteger(arg) == IF arg = None THEN None ELSE int(arg[1])

\* v brought into lo..hi
Clamped(v, lo, hi) == IF v < lo THEN lo ELSE IF v > hi THEN hi ELSE v

\* C37: for every request to /search, /words_by_letter and /all_words the
\* effective limit is an integer in 1..200 and the effective offset an
\* integer >= 0: an integer limit is clamped into 1..200 and an integer
\* offset raised to 0 where it is negative, a limit that is not an integer
\* becomes 40 and such an offset 0, and the response never carries more
\* results than the effective limit
C37_LimitAndOffsetClamped ==
  (pc = "listed" /\ list_response[1].status = 200) =>
    LET r == list_response[1]
        l == GivenInteger(list_args[1].limit)
        o == GivenInteger(list_args[1].offset)
    IN  /\ r.limit \in 1..200
        /\ r.offset \in Nat
        /\ l # None => r.limit = Clamped(l[1], 1, 200)
        /\ (list_args[1].limit # None /\ l = None) => r.limit = 40
        /\ o # None => r.offset = (IF o[1] < 0 THEN 0 ELSE o[1])
        /\ (list_args[1].offset # None /\ o = None) => r.offset = 0
        /\ Len(r.results) <= r.limit

\* a request for more than 200 rows of a table that holds more than 200
\* was answered with 200 results
C37_Witness ==
  /\ pc = "listed"
  /\ list_response[1].status = 200
  /\ GivenInteger(list_args[1].limit) # None
  /\ GivenInteger(list_args[1].limit)[1] > 200
  /\ list_response[1].limit = 200
  /\ Len(list_response[1].results) = 200
  /\ list_response[1].total_count > 200

====
